---------------------------- MODULE Spec2Model ----------------------------
(***************************************************************************)
(* Model of the pattern matchers and of the ensemble routes of api-neural. *)
(*                                                                         *)
(* Conventions.  A Python float is a fixed-point integer in units of       *)
(* 1/SCALE, so 1.0 is SCALE.  A Python dict is a sequence of <<key,value>> *)
(* pairs in insertion order (the order dict.items() yields and the stable  *)
(* sorted() preserves among equal keys).  A Python list is a sequence;     *)
(* At(s, i) reads it with the source's 0-based index.  A Python set of     *)
(* numbers is iterated in ascending order.                                 *)
(***************************************************************************)
EXTENDS Integers, Sequences, FiniteSets, TLC

\* 1.0 as a fixed-point integer
SCALE == 10000

\* ------------------------------------------------------------------------
\* Python list and dict primitives
\* ------------------------------------------------------------------------

At(s, i) == s[i + 1]

Min2(a, b) == IF a < b THEN a ELSE b

Max2(a, b) == IF a > b THEN a ELSE b

\* s[a:b]
Slice(s, a, b) ==
    LET hi == Min2(b, Len(s))
        lo == Max2(a, 0)
    IN  IF hi <= lo THEN <<>> ELSE [i \in 1..(hi - lo) |-> s[lo + i]]

\* list(range(a, b))
PyRange(a, b) == IF b <= a THEN <<>> ELSE [i \in 1..(b - a) |-> a + i - 1]

\* `v` under the name the body `F` gives it: a local variable of the source
\* (computed once, when it is assigned, before the body is entered)
Bind(v, F(_)) == CHOOSE r \in {F(x) : x \in {v}} : TRUE

\* the left fold the source writes as a for loop over a list
\* (split in halves, the left half computed before the right one is entered,
\* so that the evaluation depth grows with log(Len(s)))
FoldSeq(op(_, _), acc, s) ==
    LET RECURSIVE g(_, _, _)
        g(a, lo, hi) ==
            IF lo > hi THEN a
            ELSE IF lo = hi THEN op(a, s[lo])
            ELSE CHOOSE r \in {g(left, (lo + hi) \div 2 + 1, hi) :
                               left \in {g(a, lo, (lo + hi) \div 2)}} : TRUE
    IN  g(acc, 1, Len(s))

SeqToSet(s) == {s[i] : i \in DOMAIN s}

\* list.count(x)
Count(s, x) == Cardinality({i \in DOMAIN s : s[i] = x})

\* list(reversed(s))
Reverse(s) == [i \in 1..Len(s) |-> s[Len(s) + 1 - i]]

\* sorted set of numbers as a list
SortedSeq(S) ==
    LET f[T \in SUBSET S] ==
            IF T = {} THEN <<>>
            ELSE LET m == CHOOSE x \in T : \A y \in T : x <= y
                 IN  <<m>> \o f[T \ {m}]
    IN  f[S]

DKeys(d) == [i \in DOMAIN d |-> d[i][1]]

DHas(d, k) == \E i \in DOMAIN d : d[i][1] = k

DIndex(d, k) == CHOOSE i \in DOMAIN d : d[i][1] = k

\* d.get(k, 0)
DGet(d, k) == IF DHas(d, k) THEN d[DIndex(d, k)][2] ELSE 0

\* d[k] = v
DSet(d, k, v) ==
    IF DHas(d, k) THEN [d EXCEPT ![DIndex(d, k)] = <<k, v>>]
    ELSE Append(d, <<k, v>>)

\* defaultdict(float): d[k] += v
DAdd(d, k, v) == DSet(d, k, DGet(d, k) + v)

\* defaultdict(float): d[k] *= num/den (creates the key at 0.0 when absent)
DMul(d, k, num, den) == DSet(d, k, (DGet(d, k) * num) \div den)

\* for k in ks: d[k] += v
DAddAll(d, ks, v) == FoldSeq(LAMBDA acc, k : DAdd(acc, k, v), d, ks)

\* for k in ks: d[k] *= num/den
DMulAll(d, ks, num, den) == FoldSeq(LAMBDA acc, k : DMul(acc, k, num, den), d, ks)

\* max(d.values()) of a non-empty dict
DMax(d) == CHOOSE m \in {d[i][2] : i \in DOMAIN d} :
               \A j \in DOMAIN d : d[j][2] <= m

\* sorted(d.items(), key=lambda x: x[1], reverse=True): stable, so equal
\* scores keep their insertion order
SortedByScoreDesc(d) ==
    LET Before(i, j) == d[i][2] > d[j][2] \/ (d[i][2] = d[j][2] /\ i < j)
        rank == [i \in DOMAIN d |->
                    1 + Cardinality({j \in DOMAIN d : Before(j, i)})]
    IN  [r \in DOMAIN d |-> d[CHOOSE i \in DOMAIN d : rank[i] = r]]

\* ------------------------------------------------------------------------
\* utils/constants.py, utils/helpers.py
\* ------------------------------------------------------------------------

RODA == <<0, 32, 15, 19, 4, 21, 2, 25, 17, 34, 6, 27, 13, 36, 11, 30, 8, 23,
          10, 5, 24, 16, 33, 1, 20, 14, 31, 9, 22, 18, 29, 7, 28, 12, 35, 3,
          26>>

ESPELHOS == (1 :> 10) @@ (10 :> 1) @@ (2 :> 20) @@ (20 :> 2) @@ (3 :> 30)
            @@ (30 :> 3) @@ (6 :> 9) @@ (9 :> 6) @@ (16 :> 19) @@ (19 :> 16)
            @@ (26 :> 29) @@ (29 :> 26) @@ (13 :> 31) @@ (31 :> 13)
            @@ (12 :> 21) @@ (21 :> 12) @@ (32 :> 23) @@ (23 :> 32)

\* get_vizinhos(numero, distancia): left neighbours, then right neighbours
get_vizinhos(numero, distancia) ==
    IF numero \notin SeqToSet(RODA) THEN <<>>
    ELSE LET idx == (CHOOSE i \in DOMAIN RODA : RODA[i] = numero) - 1
         IN  [i \in 1..distancia |-> At(RODA, (idx - i) % Len(RODA))]
             \o [i \in 1..distancia |-> At(RODA, (idx + i) % Len(RODA))]

get_terminal(numero) == numero % 10

\* [n for n in range(37) if get_terminal(n) == terminal]
get_familia_terminal(terminal) ==
    SelectSeq(PyRange(0, 37), LAMBDA n : get_terminal(n) = terminal)

get_soma_digitos(numero) == (numero \div 10) + (numero % 10)

\* ------------------------------------------------------------------------
\* patterns/base.py
\* ------------------------------------------------------------------------

\* the outcome of a call: a returned value, or a raised exception
Return(v) == [exc |-> "none", ret |-> v]

Raise(e) == [exc |-> e, ret |-> <<>>]

PatternResult(candidatos, scores, metadata, pattern_name) ==
    [candidatos |-> candidatos, scores |-> scores, metadata |-> metadata,
     pattern_name |-> pattern_name]

\* the value None of Python where a list of numbers holds one (a stored
\* document whose "value" is null)
None == 99

\* validate_history: the value it returns, or the TypeError that the test
\* 0 <= n <= 36 raises on None when `all` reaches one before it has met a
\* number out of range
validate_history(h, min_size) ==
    IF h = <<>> \/ Len(h) < min_size THEN Return(FALSE)
    ELSE IF \E i \in DOMAIN h :
                /\ h[i] = None
                /\ \A j \in 1..(i - 1) : 0 <= h[j] /\ h[j] <= 36
    THEN Raise("TypeError")
    ELSE Return(\A i \in DOMAIN h : 0 <= h[i] /\ h[i] <= 36)

\* a / m of two fixed-point numbers, 0 <= a <= m (both are first divided by
\* k when m is too large for a * SCALE to stay in 32 bits; k is 1 otherwise)
DivF(a, m) ==
    LET k == m \div 200000 + 1
    IN  ((a \div k) * SCALE) \div (m \div k)

normalize_scores(scores) ==
    IF scores = <<>> THEN <<>>
    ELSE LET max_score == DMax(scores)
         IN  IF max_score = 0 THEN scores
             ELSE [i \in DOMAIN scores |->
                      <<scores[i][1], DivF(scores[i][2], max_score)>>]

\* ------------------------------------------------------------------------
\* patterns/comportamentos_imediatos.py
\* ------------------------------------------------------------------------

janela_analise == 10

cavalos == <<<<2, 5, 8>>, <<3, 6, 9>>, <<1, 4, 7>>>>

\* _detectar_alternancia_tripla: the scores dict it returns
detectar_alternancia_tripla(ultimos_10) ==
    LET terminais == [i \in DOMAIN ultimos_10 |-> get_terminal(ultimos_10[i])]
        posicoes(t) == SelectSeq(PyRange(0, Len(terminais)),
                                 LAMBDA i : At(terminais, i) = t)
        alternancia(t) ==
            /\ Len(posicoes(t)) >= 3
            /\ \A i \in 1..(Len(posicoes(t)) - 1) :
                   posicoes(t)[i + 1] - posicoes(t)[i] # 1
        outros(t) == SelectSeq(PyRange(0, 10),
                               LAMBDA o : o # t /\ Count(terminais, o) >= 2)
        step(st, t) ==
            IF ~alternancia(t) THEN st
            ELSE IF At(posicoes(t), 0) = 0
                 THEN [st EXCEPT
                          !.detectada = TRUE,
                          !.scores = FoldSeq(
                              LAMBDA acc, o :
                                  DAddAll(acc, get_familia_terminal(o), 8000),
                              st.scores, outros(t))]
                 ELSE [detectada |-> TRUE,
                       scores |-> DAddAll(st.scores, get_familia_terminal(t),
                                          10000),
                       proximos_esperados |->
                           st.proximos_esperados \o get_familia_terminal(t)]
        fim == FoldSeq(step,
                       [detectada |-> FALSE, scores |-> <<>>,
                        proximos_esperados |-> <<>>],
                       PyRange(0, 10))
    IN  IF /\ fim.detectada
           /\ Len(ultimos_10) > 1
           /\ At(ultimos_10, 0) \in SeqToSet(get_vizinhos(At(ultimos_10, 1), 1))
        THEN DMulAll(fim.scores, fim.proximos_esperados, 13, 10)
        ELSE fim.scores

\* _detectar_repeticoes_duplas: the scores dict it returns
detectar_repeticoes_duplas(ultimos_10) ==
    LET step(st, i) ==
            LET atual == At(ultimos_10, i)
                proximo == At(ultimos_10, i + 1)
                eh_vizinho == proximo \in SeqToSet(get_vizinhos(atual, 1))
                eh_espelho == atual \in DOMAIN ESPELHOS /\ ESPELHOS[atual] = proximo
                s1 == IF eh_vizinho
                      THEN DAddAll(st.scores,
                                   SelectSeq(get_vizinhos(atual, 1),
                                             LAMBDA v : v # proximo), 7000)
                      ELSE st.scores
                s2 == IF eh_espelho
                      THEN FoldSeq(LAMBDA acc, n :
                                       IF n \in DOMAIN ESPELHOS
                                       THEN DAdd(acc, ESPELHOS[n], 8000)
                                       ELSE acc,
                                   s1, Slice(ultimos_10, 0, 3))
                      ELSE s1
            IN  [scores |-> s2,
                 count |-> st.count + (IF eh_vizinho THEN 1 ELSE 0)
                                    + (IF eh_espelho THEN 1 ELSE 0)]
        fim == FoldSeq(step, [scores |-> <<>>, count |-> 0],
                       PyRange(0, Len(ultimos_10) - 1))
    IN  IF fim.count >= 2
        THEN DMulAll(fim.scores, DKeys(fim.scores), 15, 10)
        ELSE fim.scores

\* _detectar_cavalos_incompletos: the scores dict it returns
detectar_cavalos_incompletos(ultimos_10) ==
    LET terminais_presentes ==
            LET u6 == Slice(ultimos_10, 0, 6)
            IN  [i \in DOMAIN u6 |-> get_terminal(u6[i])]
        index(t) == (CHOOSE i \in DOMAIN terminais_presentes :
                        /\ terminais_presentes[i] = t
                        /\ \A j \in 1..(i - 1) : terminais_presentes[j] # t) - 1
        step(st, cavalo) ==
            LET presentes == SelectSeq(cavalo,
                                 LAMBDA t : Count(terminais_presentes, t) > 0)
            IN  IF Len(presentes) # 2 THEN st
                ELSE LET faltante == At(SelectSeq(cavalo,
                                 LAMBDA t : t \notin SeqToSet(presentes)), 0)
                         fam == get_familia_terminal(faltante)
                         s1 == DAddAll(st.scores, fam, 12000)
                         d == index(At(presentes, 1)) - index(At(presentes, 0))
                     IN  [scores |-> IF d = 2 \/ d = -2
                                     THEN DMulAll(s1, fam, 15, 10) ELSE s1,
                          faltantes |-> st.faltantes \o fam]
        fim == FoldSeq(step, [scores |-> <<>>, faltantes |-> <<>>], cavalos)
    IN  IF fim.faltantes # <<>> /\ Len(ultimos_10) > 1
        THEN FoldSeq(LAMBDA acc, f :
                         IF At(ultimos_10, 0) \in SeqToSet(get_vizinhos(f, 1))
                         THEN DMul(acc, f, 13, 10) ELSE acc,
                     fim.scores, fim.faltantes)
        ELSE fim.scores

\* _identificar_tipo_substituicao
identificar_tipo_substituicao(original, substituto) ==
    IF substituto \in SeqToSet(get_vizinhos(original, 1)) THEN "vizinho"
    ELSE IF original \in DOMAIN ESPELHOS /\ ESPELHOS[original] = substituto
         THEN "espelho"
    ELSE IF get_terminal(original) = get_terminal(substituto) THEN "terminal"
    ELSE IF substituto = original * 2 \/ original = substituto * 2 THEN "dobro"
    ELSE IF get_soma_digitos(original) = get_soma_digitos(substituto) THEN "soma"
    ELSE "None"

\* _detectar_substituicoes: the scores dict it returns
detectar_substituicoes(ultimos_10, historico_completo) ==
    LET h == historico_completo
        pares == \* (i, j) in the order of the two nested loops
            FoldSeq(LAMBDA acc, i :
                        acc \o [n \in DOMAIN PyRange(10, Min2(Len(h) - 3, 50)) |->
                                   <<i, PyRange(10, Min2(Len(h) - 3, 50))[n]>>],
                    <<>>, PyRange(0, Len(ultimos_10) - 3))
        step(scores, p) ==
            LET i == p[1]
                j == p[2]
                seq == Slice(ultimos_10, i, i + 3)
                seq_hist == Slice(h, j, j + 3)
                difs == {k \in 1..3 : seq[k] # seq_hist[k]}
            IN  IF Cardinality(difs) # 1 THEN scores
                ELSE LET k == CHOOSE x \in difs : TRUE
                         original == seq_hist[k]
                         substituto == seq[k]
                         tipo == identificar_tipo_substituicao(original,
                                                               substituto)
                     IN  CASE tipo = "vizinho" ->
                                  DAddAll(scores, get_vizinhos(substituto, 1),
                                          8000)
                           [] tipo = "espelho" ->
                                  IF /\ j + 3 < Len(h)
                                     /\ At(h, j + 3) \in DOMAIN ESPELHOS
                                  THEN DAdd(scores, ESPELHOS[At(h, j + 3)],
                                            10000)
                                  ELSE scores
                           [] tipo = "terminal" ->
                                  DAddAll(scores,
                                          SelectSeq(
                                              get_familia_terminal(
                                                  get_terminal(substituto)),
                                              LAMBDA n : n # substituto),
                                          6000)
                           [] OTHER -> scores
    IN  IF Len(ultimos_10) < 4 THEN <<>> ELSE FoldSeq(step, <<>>, pares)

\* _detectar_crescentes: the scores dict it returns
detectar_crescentes(ultimos_10) ==
    LET u == ultimos_10
        step1(scores, i) ==
            LET a == At(u, i + 2)
                b == At(u, i + 1)
                c == At(u, i)
                s1 == IF b = a + 1 /\ c = b + 1
                      THEN IF 0 <= c + 1 /\ c + 1 <= 36
                           THEN DAdd(scores, c + 1, 12000) ELSE scores
                      ELSE IF b = a - 1 /\ c = b - 1
                      THEN IF 0 <= c - 1 /\ c - 1 <= 36
                           THEN DAdd(scores, c - 1, 12000) ELSE scores
                      ELSE IF b = a * 2 /\ c = b * 2
                      THEN IF 0 <= c * 2 /\ c * 2 <= 36
                           THEN DAdd(scores, c * 2, 10000) ELSE scores
                      ELSE scores
                ta == get_terminal(a)
                tb == get_terminal(b)
                tc == get_terminal(c)
            IN  IF tb = (ta + 1) % 10 /\ tc = (tb + 1) % 10
                THEN DAddAll(s1, get_familia_terminal((tc + 1) % 10), 7000)
                ELSE s1
        step2(scores, i) ==
            LET seq_terms == [j \in 1..3 |-> get_terminal(At(u, i + j - 1))]
                crescente == seq_terms[1] <= seq_terms[2]
                             /\ seq_terms[2] <= seq_terms[3]
            IN  FoldSeq(LAMBDA acc, cavalo :
                            IF SeqToSet(seq_terms) \subseteq SeqToSet(cavalo)
                               /\ crescente
                            THEN FoldSeq(
                                     LAMBDA acc2, t :
                                         DAddAll(acc2, get_familia_terminal(t),
                                                 9000),
                                     acc,
                                     SelectSeq(cavalo,
                                         LAMBDA t : t \notin SeqToSet(seq_terms)))
                            ELSE acc,
                        scores, cavalos)
    IN  FoldSeq(step2,
                FoldSeq(step1, <<>>, PyRange(0, Len(u) - 2)),
                PyRange(0, Len(u) - 4))

\* _detectar_retornos_duplos: the scores dict it returns
detectar_retornos_duplos(ultimos_10) ==
    LET u == ultimos_10
        atual == At(u, 0)
        step(st, i) ==
            LET anterior == At(u, i)
                eh_vizinho == atual \in SeqToSet(get_vizinhos(anterior, 1))
                eh_espelho == anterior \in DOMAIN ESPELHOS
                              /\ ESPELHOS[anterior] = atual
                s1 == IF eh_vizinho
                      THEN DAddAll(st.scores,
                                   SelectSeq(get_vizinhos(anterior, 1),
                                             LAMBDA v : v # atual), 8000)
                      ELSE st.scores
                s2 == IF eh_espelho
                      THEN FoldSeq(LAMBDA acc, n :
                                       IF n \in DOMAIN ESPELHOS
                                       THEN DAdd(acc, ESPELHOS[n], 9000)
                                       ELSE acc,
                                   s1, Slice(u, 1, 4))
                      ELSE s1
            IN  [scores |-> s2,
                 count |-> st.count + (IF eh_vizinho THEN 1 ELSE 0)
                                    + (IF eh_espelho THEN 1 ELSE 0),
                 retornos |-> IF eh_vizinho \/ eh_espelho
                              THEN st.retornos \cup {anterior} ELSE st.retornos]
        fim == FoldSeq(step, [scores |-> <<>>, count |-> 0, retornos |-> {}],
                       PyRange(2, Min2(Len(u), 6)))
        volta(scores, i) ==
            LET num == At(u, i)
                s1 == DAddAll(DAdd(scores, num, 10000), get_vizinhos(num, 1),
                              7000)
            IN  IF num \in fim.retornos THEN scores
                ELSE IF num \in DOMAIN ESPELHOS
                     THEN DAdd(s1, ESPELHOS[num], 8000) ELSE s1
    IN  IF fim.count >= 2
        THEN FoldSeq(volta, fim.scores, PyRange(2, Min2(Len(u), 8)))
        ELSE fim.scores

\* ComportamentosImediatos.analyze
ComportamentosImediatos_analyze(historico) ==
    IF Len(historico) < janela_analise
    THEN \* PatternResult() without its four required fields
         Raise("TypeError")
    ELSE LET ultimos_10 == Slice(historico, 0, janela_analise)
             soma(tot, parcial, num, den) ==
                 FoldSeq(LAMBDA acc, kv : DAdd(acc, kv[1], (kv[2] * num) \div den),
                         tot, parcial)
             s1 == soma(<<>>, detectar_alternancia_tripla(ultimos_10), 15, 10)
             s2 == soma(s1, detectar_repeticoes_duplas(ultimos_10), 12, 10)
             s3 == soma(s2, detectar_cavalos_incompletos(ultimos_10), 13, 10)
             s4 == soma(s3, detectar_substituicoes(ultimos_10, historico), 1, 1)
             s5 == soma(s4, detectar_crescentes(ultimos_10), 11, 10)
             scores_totais == soma(s5, detectar_retornos_duplos(ultimos_10),
                                   12, 10)
         IN  Return(PatternResult(
                 DKeys(scores_totais), scores_totais,
                 [janela_analisada |-> janela_analise,
                  ultimos_numeros |-> ultimos_10],
                 "comportamentos_imediatos"))

\* ------------------------------------------------------------------------
\* patterns/master.py
\* ------------------------------------------------------------------------

\* the members of PropertyType, in the order the enum declares them
PropertyType == <<"dozen", "column", "color", "parity", "range", "group",
                  "combined">>

RED_NUMBERS == {1, 3, 5, 7, 9, 12, 14, 16, 18, 19, 21, 23, 25, 27, 30, 32,
                34, 36}

BLACK_NUMBERS == {2, 4, 6, 8, 10, 11, 13, 15, 17, 20, 22, 24, 26, 28, 29,
                  31, 33, 35}

VOISINS == {0, 2, 3, 4, 7, 12, 15, 18, 19, 21, 22, 25, 26, 28, 29, 32, 35}

TIERS == {5, 8, 10, 11, 13, 16, 23, 24, 27, 30, 33, 36}

ORPHELINS == {1, 6, 9, 14, 17, 20, 31, 34}

\* RouletteProperties.get_all_properties(num)[prop]; the combined property
\* "D<dozen><E|O>" is the pair <<dozen, parity>>, and "zero" is <<0, "zero">>
get_property(prop, num) ==
    LET dozen == IF num = 0 THEN 0 ELSE (num - 1) \div 12 + 1
        parity == IF num = 0 THEN "zero"
                  ELSE IF num % 2 = 0 THEN "even" ELSE "odd"
    IN  CASE prop = "dozen" -> dozen
          [] prop = "column" -> IF num = 0 THEN 0 ELSE ((num - 1) % 3) + 1
          [] prop = "color" -> IF num = 0 THEN "green"
                               ELSE IF num \in RED_NUMBERS THEN "red"
                               ELSE "black"
          [] prop = "parity" -> parity
          [] prop = "range" -> IF num = 0 THEN "zero"
                               ELSE IF num <= 18 THEN "low" ELSE "high"
          [] prop = "group" -> IF num \in VOISINS THEN "voisins"
                               ELSE IF num \in TIERS THEN "tiers"
                               ELSE IF num \in ORPHELINS THEN "orphelins"
                               ELSE "none"
          [] prop = "combined" -> <<dozen, parity>>

\* PatternMaster.__init__: default_windows
window_sizes(prop) ==
    CASE prop \in {"color", "parity"} -> 10
      [] prop \in {"dozen", "column", "group"} -> 200
      [] prop \in {"range", "combined"} -> 15

\* PatternMaster.__init__: default_confirmations
min_confirmations(prop) == IF prop \in {"color", "parity"} THEN 3 ELSE 2

\* PatternMaster.__init__: self.stats
PatternMaster_init ==
    [patterns_detected |-> 0, cycles_completed |-> 0, blocks_triggered |-> 0,
     confluences_found |-> 0]

\* process_properties: the deque (maxlen = the largest window) of one property,
\* filled from the history in chronological order
property_history(prop, history_reversed) ==
    LET all == [i \in DOMAIN history_reversed |->
                   get_property(prop, history_reversed[i])]
    IN  Slice(all, Len(all) - 200, Len(all))

\* s[-n:]
LastN(s, n) == Slice(s, Len(s) - n, Len(s))

\* the first item of greatest count: Counter.most_common(1)[0]
most_common(counter) ==
    counter[CHOOSE i \in DOMAIN counter :
                /\ \A j \in DOMAIN counter : counter[j][2] <= counter[i][2]
                /\ \A j \in 1..(i - 1) : counter[j][2] < counter[i][2]]

\* _detect_alternation: a PropertyPattern, or <<>> for None
detect_alternation(window, prop_type) ==
    LET idx == SelectSeq(PyRange(0, Len(window) - 1),
                         LAMBDA i : At(window, i) # At(window, i + 1))
        alternations == Len(idx)
        pattern == FoldSeq(LAMBDA acc, i :
                               IF acc = <<>> \/ acc[Len(acc)] # At(window, i)
                               THEN Append(acc, At(window, i)) ELSE acc,
                           <<>>, idx)
    IN  IF Len(window) < 4 \/ alternations < Len(window) - 2 THEN <<>>
        ELSE <<[property_type |-> prop_type,
                pattern |-> LastN(pattern, 4),
                occurrences |-> alternations \div 2,
                pattern_type |-> "alternation",
                confidence |-> (alternations * SCALE) \div (Len(window) - 1)]>>

\* _detect_repetition: a PropertyPattern, or <<>> for None
detect_repetition(window, prop_type) ==
    LET \* walks the window from its end; st.counter is the Counter
        step(st, i) ==
            IF At(window, i) = st.current
            THEN [st EXCEPT !.count = st.count + 1]
            ELSE [current |-> At(window, i), count |-> 1,
                  counter |-> IF st.count >= 2
                              THEN DSet(st.counter, st.current, st.count)
                              ELSE st.counter]
        fim == FoldSeq(step,
                       [current |-> window[Len(window)], count |-> 1,
                        counter |-> <<>>],
                       Reverse(PyRange(0, Len(window) - 1)))
        counter == IF fim.count >= 2
                   THEN DSet(fim.counter, fim.current, fim.count)
                   ELSE fim.counter
    IN  IF Len(window) < 3 \/ counter = <<>> THEN <<>>
        ELSE <<[property_type |-> prop_type,
                pattern |-> <<most_common(counter)[1]>>,
                occurrences |-> most_common(counter)[2],
                pattern_type |-> "repetition",
                confidence |-> (most_common(counter)[2] * SCALE)
                                   \div Len(window)]>>

\* _detect_progression: a PropertyPattern, or <<>> for None
detect_progression(window, prop_type) ==
    LET triple(i) == SelectSeq(Slice(window, i, i + 3), LAMBDA x : x # 0)
        eh_progressao(q) ==
            \/ (q[1] < q[2] /\ q[2] < q[3])
            \/ (q[1] > q[2] /\ q[2] > q[3])
        progressions ==
            FoldSeq(LAMBDA acc, i :
                        IF Len(triple(i)) = 3 /\ eh_progressao(triple(i))
                        THEN Append(acc, triple(i)) ELSE acc,
                    <<>>, PyRange(0, Len(window) - 2))
        counter == FoldSeq(LAMBDA acc, q : DAdd(acc, q, 1), <<>>, progressions)
    IN  IF Len(window) < 3 \/ progressions = <<>> THEN <<>>
        ELSE <<[property_type |-> prop_type,
                pattern |-> most_common(counter)[1],
                occurrences |-> most_common(counter)[2],
                pattern_type |-> "progression",
                confidence |-> (most_common(counter)[2] * SCALE)
                                   \div Len(progressions)]>>

\* detect_property_patterns: the confirmed patterns, in detection order
detect_property_patterns(history_reversed) ==
    LET de(prop) ==
            LET history == property_history(prop, history_reversed)
                window == IF Len(history) > window_sizes(prop)
                          THEN LastN(history, window_sizes(prop)) ELSE history
                confirmed(ps, n) ==
                    SelectSeq(ps, LAMBDA p : p.occurrences >= n)
            IN  IF Len(history) < 3 THEN <<>>
                ELSE confirmed(detect_alternation(window, prop),
                               min_confirmations(prop))
                     \o confirmed(detect_repetition(window, prop),
                                  min_confirmations(prop))
                     \o (IF prop \in {"dozen", "column"}
                         THEN confirmed(detect_progression(window, prop), 2)
                         ELSE <<>>)
    IN  FoldSeq(LAMBDA acc, prop : acc \o de(prop), <<>>, PropertyType)

\* detect_cycles: the CycleDetection records, in detection order
detect_cycles(history_reversed) ==
    LET dozen_clean == SelectSeq(
                           LastN(property_history("dozen", history_reversed), 9),
                           LAMBDA d : d # 0)
        dozen_cycle ==
            IF Len(dozen_clean) >= 3
               /\ SeqToSet(LastN(dozen_clean, 3)) = {1, 2, 3}
            THEN <<[cycle_type |-> "dozen_complete", completed |-> TRUE,
                    next_expected |-> LastN(dozen_clean, 3)[1]]>>
            ELSE <<>>
        color_history == LastN(property_history("color", history_reversed), 6)
        \* the while loop that pairs equal neighbours: st.i is its index
        pair(st, n) ==
            IF st.i >= Len(color_history) - 1 THEN st
            ELSE IF At(color_history, st.i) = At(color_history, st.i + 1)
                 THEN [i |-> st.i + 2,
                       pattern |-> Append(st.pattern, At(color_history, st.i))]
                 ELSE [st EXCEPT !.i = st.i + 1]
        pattern == FoldSeq(pair, [i |-> 0, pattern |-> <<>>],
                           PyRange(0, Len(color_history))).pattern
        color_cycle ==
            IF /\ Len(color_history) >= 6
               /\ Len(pattern) >= 2
               /\ pattern[Len(pattern)] # pattern[Len(pattern) - 1]
            THEN <<[cycle_type |-> "binary_color",
                    completed |-> Len(pattern) >= 3,
                    next_expected |-> IF pattern[Len(pattern)] = "black"
                                      THEN "red" ELSE "black"]>>
            ELSE <<>>
        parity_history == LastN(property_history("parity", history_reversed), 5)
        last_parity == parity_history[Len(parity_history)]
        \* the length of the run of last_parity that ends the list
        consecutive ==
            CHOOSE c \in 1..Len(parity_history) :
                /\ \A k \in 0..(c - 1) :
                       parity_history[Len(parity_history) - k] = last_parity
                /\ \/ c = Len(parity_history)
                   \/ parity_history[Len(parity_history) - c] # last_parity
        parity_cycle ==
            IF Len(parity_history) >= 3 /\ consecutive >= 3
            THEN <<[cycle_type |-> "parity_break", completed |-> FALSE,
                    next_expected |-> IF last_parity = "even"
                                      THEN "odd" ELSE "even"]>>
            ELSE <<>>
    IN  dozen_cycle \o color_cycle \o parity_cycle

\* check_block_conditions: the set self.block_conditions it leaves
check_block_conditions(history_reversed, patterns) ==
    {prop \o "_exhausted" : prop \in
        {p \in {"color", "parity"} :
            LET history == LastN(property_history(p, history_reversed), 4)
            IN  Len(history) = 4 /\ Cardinality(SeqToSet(history)) = 1}}
    \cup
    {patterns[i].property_type \o "_unconfirmed" : i \in
        {j \in DOMAIN patterns :
            /\ patterns[j].pattern_type = "alternation"
            /\ patterns[j].confidence * 2 < SCALE}}

\* _is_blocked
is_blocked(num, block_conditions) ==
    \/ /\ "color_exhausted" \in block_conditions
       /\ get_property("color", num) \in {"red", "black"}
    \/ /\ "parity_exhausted" \in block_conditions
       /\ get_property("parity", num) \in {"even", "odd"}

\* _get_numbers_for_pattern: the set it returns, as the list its iteration
\* yields
get_numbers_for_pattern(pattern) ==
    LET p == pattern.pattern
        prop == pattern.property_type
        next_value ==
            CASE pattern.pattern_type = "alternation" ->
                     IF Len(p) % 2 = 0 THEN p[1] ELSE p[Len(p)]
              [] pattern.pattern_type = "repetition" -> p[1]
              [] pattern.pattern_type = "progression" ->
                     IF p = <<1, 2, 3>> THEN 1
                     ELSE IF p = <<3, 2, 1>> THEN 3 ELSE p[Len(p)]
    IN  SortedSeq(
            IF prop = "combined"
            THEN IF next_value[1] # 0
                 THEN {n \in 1..36 : get_property("combined", n) = next_value}
                 ELSE {}
            ELSE IF prop = "group"
            THEN {n \in 0..36 : get_property("group", n) = next_value}
            ELSE {n \in 1..36 : get_property(prop, n) = next_value})

\* _get_numbers_for_cycle
get_numbers_for_cycle(cycle) ==
    SortedSeq(
        CASE cycle.cycle_type = "dozen_complete" ->
                 {n \in 1..36 : get_property("dozen", n) = cycle.next_expected}
          [] cycle.cycle_type = "binary_color" ->
                 {n \in 1..36 : get_property("color", n) = cycle.next_expected}
          [] cycle.cycle_type = "parity_break" ->
                 {n \in 1..36 :
                     /\ get_property("parity", n) = cycle.next_expected
                     /\ get_property("dozen", n) = 1})

\* generate_candidates: the candidates dict and the new
\* stats['confluences_found']
generate_candidates(patterns, cycles, block_conditions, confluences_found) ==
    LET livres(numbers) ==
            SelectSeq(numbers, LAMBDA n : ~is_blocked(n, block_conditions))
    IN  Bind(FoldSeq(LAMBDA acc, pattern :
                         DAddAll(acc, livres(get_numbers_for_pattern(pattern)),
                                 pattern.confidence),
                     <<>>, patterns), LAMBDA c1 :
        Bind(FoldSeq(LAMBDA acc, cycle :
                         DAddAll(acc, livres(get_numbers_for_cycle(cycle)),
                                 IF cycle.completed THEN 8000 ELSE 5000),
                     c1, cycles), LAMBDA c2 :
        Bind(FoldSeq(LAMBDA acc, pattern :
                         DAddAll(acc, get_numbers_for_pattern(pattern), 1),
                     <<>>, patterns), LAMBDA confluences :
        Bind(SelectSeq(confluences, LAMBDA kv : kv[2] >= 2),
             LAMBDA convergentes :
        Bind(FoldSeq(LAMBDA acc, kv : DMul(acc, kv[1], 10 + kv[2] * 2, 10),
                     c2, convergentes), LAMBDA c3 :
        [candidates |-> IF DHas(c3, 0) THEN c3 ELSE DSet(c3, 0, 1000),
         confluences_found |-> confluences_found + Len(convergentes)])))))

\* PatternMaster.analyze on an object whose self.stats is `stats`: the outcome
\* of the call and the stats it leaves.  (metadata keeps the counters; its two
\* descriptive texts, functions of the same patterns and cycles, are left out.)
PatternMaster_analyze(stats, history) ==
    IF validate_history(history, 5).exc # "none"
    THEN [out |-> Raise(validate_history(history, 5).exc), stats |-> stats]
    ELSE IF ~validate_history(history, 5).ret
    THEN [out |-> Return(PatternResult(<<>>, <<>>,
                      [error |-> "Historico invalido ou insuficiente"],
                      "PatternMaster")),
          stats |-> stats]
    ELSE
    Bind(Reverse(history), LAMBDA history_reversed :
    Bind(detect_property_patterns(history_reversed), LAMBDA patterns :
    Bind(detect_cycles(history_reversed), LAMBDA cycles :
    Bind(check_block_conditions(history_reversed, patterns),
         LAMBDA block_conditions :
    Bind(generate_candidates(patterns, cycles, block_conditions,
                             stats.confluences_found), LAMBDA gen :
    Bind(normalize_scores(gen.candidates), LAMBDA scores :
    Bind(DKeys(Slice(SortedByScoreDesc(scores), 0, 6)), LAMBDA top :
    Bind(IF 0 \in SeqToSet(top) THEN top ELSE Append(top, 0),
         LAMBDA top_candidates :
    Bind([patterns_detected |-> Len(patterns),
          cycles_completed |-> Len(SelectSeq(cycles, LAMBDA c : c.completed)),
          blocks_triggered |-> stats.blocks_triggered
                               + Cardinality(block_conditions),
          confluences_found |-> gen.confluences_found], LAMBDA stats2 :
        IF gen.candidates = <<>>
        THEN [out |-> Return(PatternResult(<<>>, <<>>,
                          [reason |-> "Nenhuma confluencia de propriedades detectada"],
                          "PatternMaster")),
              stats |-> stats2]
        ELSE [out |-> Return(PatternResult(
                          Slice(top_candidates, 0, 6), scores,
                          [patterns_detected |-> Len(patterns),
                           cycles_active |-> Len(cycles),
                           blocks_active |-> Cardinality(block_conditions),
                           confluences |-> gen.confluences_found],
                          "PatternMaster")),
              stats |-> stats2])))))))))

\* ------------------------------------------------------------------------
\* patterns/chain.py
\* ------------------------------------------------------------------------

\* ChainAnalyzer.__init__: min_chain_support
min_support == 2

\* ChainAnalyzer.__init__: recent_window_miss
miss_window == 30

\* ChainAnalyzer.__init__: max_chain_length
max_length == 4

\* a * b of two fixed-point numbers, computed in two parts to stay in 32 bits
MulF(a, b) == (a \div SCALE) * b + ((a % SCALE) * b) \div SCALE

\* (num/den) ** k as a fixed-point number (carried with three more digits)
Power(num, den, k) ==
    (FoldSeq(LAMBDA a, x : (a * num + den \div 2) \div den, SCALE * 1000,
             PyRange(0, k)) + 500) \div 1000

\* ChainAnalyzer.__init__: the empty model
ChainAnalyzer_init == [chains |-> <<>>, pair_cache |-> <<>>]

\* a clear that leaves the container as it is
nao_limpa(d) == d

\* self.chains.clear(), self.pair_cache.clear()
clear(d) == <<>>

\* _learn_chains_of_length over the oldest-first history: self.chains after
\* the loop, as the list of its ChainPattern records in creation order
learn_chains_of_length(chains, history, length) ==
    LET n == Len(history)
        learn(acc, i) ==
            LET sequence == Slice(history, i, i + length)
                outcome == At(history, i + length)
                position_weight == Power(95, 100, n - i - length)
                existing == {k \in DOMAIN acc :
                                /\ acc[k].sequence = sequence
                                /\ acc[k].outcome = outcome}
            IN  IF existing # {}
                THEN LET k == CHOOSE x \in existing : TRUE
                     IN  [acc EXCEPT
                             ![k].count = @ + 1,
                             ![k].last_seen = i,
                             ![k].confidence = @ + position_weight]
                ELSE Append(acc,
                            [sequence |-> sequence, outcome |-> outcome,
                             count |-> 1, last_seen |-> i,
                             confidence |-> position_weight])
    IN  FoldSeq(learn, chains, PyRange(0, n - length))

\* _learn_pairs over the oldest-first history: self.pair_cache after the
\* loop, a dict of Counters
learn_pairs(pair_cache, history) ==
    FoldSeq(LAMBDA acc, i :
                DSet(acc, At(history, i),
                     DAdd(IF DHas(acc, At(history, i))
                          THEN acc[DIndex(acc, At(history, i))][2] ELSE <<>>,
                          At(history, i + 1), 1)),
            pair_cache, PyRange(0, Len(history) - 1))

\* the two loops of _learn_from_history over the oldest-first history: the
\* chains of each length, then the pairs, added to what self holds
learn_history(self, reversed_hist) ==
    [chains |->
         FoldSeq(LAMBDA acc, chain_len :
                     learn_chains_of_length(acc, reversed_hist, chain_len),
                 self.chains, PyRange(1, max_length + 1)),
     pair_cache |-> learn_pairs(self.pair_cache, reversed_hist)]

\* a learner that takes the history it is given for the oldest-first one
learn_from_history_sem_inverter(self, history) ==
    learn_history(ChainAnalyzer_init, history)

\* a learner that keeps what it had learned before
learn_from_history_sem_limpar(self, history) ==
    learn_history(self, Reverse(history))

\* _learn_from_history: self.chains and self.pair_cache after the call
learn_from_history(self, history) ==
    learn_history([chains |-> clear(self.chains),
                   pair_cache |-> clear(self.pair_cache)],
                  Reverse(history))

\* _calculate_missing_bonus
calculate_missing_bonus(recent, candidates) ==
    IF candidates = <<>> THEN <<>>
    ELSE LET max_weight == DMax(candidates)
             top == Slice(SortedByScoreDesc(candidates), 0, 15)
             fora == SelectSeq(top, LAMBDA kv : kv[1] \notin SeqToSet(recent))
         IN  [i \in DOMAIN fora |->
                 <<fora[i][1],
                   Min2(8000, (DivF(fora[i][2], max_weight) * 8) \div 10)>>]

\* the first loop of _find_candidates: the outcomes of the learned chains
\* that start with a suffix of the recent history, weighted
candidatos_de_sufixo(chains, recent_history) ==
    LET por_tamanho(candidates, chain_len) ==
            LET suffix == Reverse(Slice(recent_history, 0, chain_len))
                valid_patterns ==
                    SelectSeq(chains, LAMBDA p : /\ p.sequence = suffix
                                                 /\ p.count >= min_support)
                ordem == SortedByScoreDesc(
                             [i \in DOMAIN valid_patterns |->
                                 <<i, valid_patterns[i].confidence>>])
            IN  FoldSeq(LAMBDA acc, iv :
                            DAdd(acc, valid_patterns[iv[1]].outcome,
                                 (iv[2] * (20 + 5 * chain_len)) \div 10),
                        candidates, Slice(ordem, 0, 5))
    IN  FoldSeq(por_tamanho, <<>>,
                PyRange(1, Min2(max_length + 1, Len(recent_history) + 1)))

\* self.pair_cache[ultimo_num].most_common(10)
most_common_pairs(pair_cache, ultimo_num) ==
    Slice(SortedByScoreDesc(pair_cache[DIndex(pair_cache, ultimo_num)][2]),
          0, 10)

\* the fallback of _find_candidates: whether the pairs of the most recent
\* number are added to the candidates c1 ("if ultimo_num and ...": the
\* number 0 is false)
usa_pares(c1, pair_cache, recent_history) ==
    /\ Len(c1) < 5
    /\ recent_history # <<>>
    /\ At(recent_history, 0) # 0
    /\ DHas(pair_cache, At(recent_history, 0))

\* the last step of _find_candidates: whether numbers absent from the recent
\* window are added to the candidates c3
usa_faltantes(c3) == Len(c3) < 3

\* the candidates of _find_candidates before its last step
candidatos_aprendidos(chains, pair_cache, recent_history) ==
    LET c1 == candidatos_de_sufixo(chains, recent_history)
        c2 == IF usa_pares(c1, pair_cache, recent_history)
              THEN FoldSeq(LAMBDA acc, kv :
                               DAdd(acc, kv[1], kv[2] * 15000),
                           c1,
                           most_common_pairs(pair_cache,
                                             At(recent_history, 0)))
              ELSE c1
        recent == Slice(recent_history, 0, miss_window)
    IN  FoldSeq(LAMBDA acc, kb :
                    IF DHas(acc, kb[1])
                    THEN DSet(acc, kb[1],
                              MulF(DGet(acc, kb[1]), SCALE + kb[2] * 2))
                    ELSE acc,
                c2, calculate_missing_bonus(recent, c2))

\* _find_candidates
find_candidates(chains, pair_cache, recent_history) ==
    LET c3 == candidatos_aprendidos(chains, pair_cache, recent_history)
        recent == Slice(recent_history, 0, miss_window)
    IN  IF usa_faltantes(c3)
        THEN FoldSeq(LAMBDA acc, num : DSet(acc, num, 1000), c3,
                     SelectSeq(PyRange(0, 37),
                               LAMBDA num : /\ num \notin SeqToSet(recent)
                                            /\ ~DHas(c3, num)))
        ELSE c3

\* _detect_inversions(recent), lookback 20: the pairs of the recent history
\* whose inverted pair shows again further back
detect_inversions(recent) ==
    LET lim == Min2(Len(recent) - 1, 20)
        invertidos(i) ==
            {j \in (i + 2)..(lim - 1) :
                /\ At(recent, j) = At(recent, i + 1)
                /\ At(recent, j + 1) = At(recent, i)}
        com == SelectSeq(PyRange(0, lim), LAMBDA i : invertidos(i) # {})
    IN  [k \in DOMAIN com |->
            [par_original |-> <<At(recent, com[k]), At(recent, com[k] + 1)>>,
             par_invertido |-> <<At(recent, com[k] + 1), At(recent, com[k])>>,
             distancia |->
                 (CHOOSE j \in invertidos(com[k]) :
                      \A x \in invertidos(com[k]) : j <= x) - com[k]]]

\* _detect_compensations(recent), window 10: the wheel neighbours of a trio
\* that show within the seven numbers after it
detect_compensations(recent) ==
    LET de_trio(i) ==
            LET trio == Slice(recent, i, i + 3)
                all_neighbors ==
                    UNION {SeqToSet(get_vizinhos(trio[k], 1)) :
                               k \in DOMAIN trio} \ SeqToSet(trio)
                js == SelectSeq(PyRange(i + 3, Min2(i + 10, Len(recent))),
                                LAMBDA j : At(recent, j) \in all_neighbors)
            IN  [k \in DOMAIN js |->
                    [trio_base |-> trio,
                     numero_compensado |-> At(recent, js[k]),
                     tipo |-> "vizinho_faltante"]]
    IN  FoldSeq(LAMBDA acc, i : acc \o de_trio(i), <<>>,
                PyRange(0, Min2(Len(recent) - 2, 10)))

\* _get_summary: the number of learned sequences, in all and of each length
\* that self.chains holds, and the ten most frequent pairs
get_summary(self, history) ==
    LET sequencias(length) ==
            {self.chains[i].sequence :
                 i \in {k \in DOMAIN self.chains :
                            Len(self.chains[k].sequence) = length}}
        all_pairs ==
            FoldSeq(LAMBDA acc, kv :
                        acc \o [i \in DOMAIN kv[2] |->
                                   << <<kv[1], kv[2][i][1]>>, kv[2][i][2] >>],
                    <<>>, self.pair_cache)
        ordenados == Slice(SortedByScoreDesc(all_pairs), 0, 10)
    IN  [total_cadeias |->
             Cardinality({self.chains[i].sequence : i \in DOMAIN self.chains}),
         por_tamanho |->
             [length \in 1..Min2(max_length, Len(history)) |->
                 Cardinality(sequencias(length))],
         top_pares |->
             [i \in DOMAIN ordenados |->
                 [de |-> ordenados[i][1][1], para |-> ordenados[i][1][2],
                  vezes |-> ordenados[i][2]]]]

\* the metadata of the result of ChainAnalyzer.analyze
metadata_de_analise(self, history) ==
    LET resumo == get_summary(self, history)
        inversoes == detect_inversions(Slice(history, 0, 30))
        compensacoes == detect_compensations(Slice(history, 0, 20))
    IN  [total_numeros |-> Len(history),
         total_cadeias_aprendidas |-> resumo.total_cadeias,
         cadeias_por_tamanho |-> resumo.por_tamanho,
         inversoes_detectadas |-> Len(inversoes),
         compensacoes_detectadas |-> Len(compensacoes),
         top_pares |-> Slice(resumo.top_pares, 0, 5),
         parametros |-> [min_support |-> min_support, decay |-> 9500,
                         miss_window |-> miss_window,
                         max_chain_length |-> max_length]]
        @@ (IF inversoes # <<>>
            THEN [inversoes |-> Slice(inversoes, 0, 3)] ELSE <<>>)
        @@ (IF compensacoes # <<>>
            THEN [compensacoes |-> Slice(compensacoes, 0, 3)] ELSE <<>>)

\* steps 2 to 6 of ChainAnalyzer.analyze: the PatternResult drawn from the
\* chains and pairs the object holds
analyze_resultado(self, history) ==
    Bind(SortedByScoreDesc(normalize_scores(
             find_candidates(self.chains, self.pair_cache,
                             Slice(history, 0, 50)))),
         LAMBDA sorted_candidates :
    PatternResult(
        DKeys(sorted_candidates), sorted_candidates,
        metadata_de_analise(self, history), "chain"))

\* the answer of ChainAnalyzer.analyze to a history that does not pass
\* validate_history, an exception raised by it included
analyze_invalido(history) ==
    IF validate_history(history, min_support).exc # "none"
    THEN Raise(validate_history(history, min_support).exc)
    ELSE Return(PatternResult(<<>>, <<>>,
                    [status |-> "insuficiente",
                     motivo |-> "Minimo 2 numeros necessarios",
                     total_numeros |-> Len(history)],
                    "chain"))

\* whether history passes the validate_history of ChainAnalyzer.analyze
historico_valido(history) ==
    /\ validate_history(history, min_support).exc = "none"
    /\ validate_history(history, min_support).ret

\* ChainAnalyzer.analyze: the outcome of the call, and self.chains and
\* self.pair_cache after it
ChainAnalyzer_analyze(self, history) ==
    IF ~historico_valido(history)
    THEN [out |-> analyze_invalido(history),
          chains |-> self.chains, pair_cache |-> self.pair_cache]
    ELSE
    Bind(learn_from_history(self, history), LAMBDA learned :
    [out |-> Return(analyze_resultado(learned, history)),
     chains |-> learned.chains, pair_cache |-> learned.pair_cache])

\* ------------------------------------------------------------------------
\* patterns/master_backup.py
\* ------------------------------------------------------------------------

\* utils/helpers.py encontrar_sequencia: the 0-based indices at which
\* `sequencia` starts in `historico`
encontrar_sequencia(historico, sequencia) ==
    IF Len(sequencia) = 0 \/ Len(historico) < Len(sequencia) THEN <<>>
    ELSE SelectSeq(PyRange(0, Len(historico) - Len(sequencia) + 1),
                   LAMBDA i :
                       Slice(historico, i, i + Len(sequencia)) = sequencia)

\* utils/helpers.py get_numeros_mesma_soma
get_numeros_mesma_soma(numero) ==
    SelectSeq(PyRange(0, 37),
              LAMBDA n : /\ n # numero
                         /\ get_soma_digitos(n) = get_soma_digitos(numero))

\* MasterPattern.__init__: peso_relacoes
peso_relacoes == 2500

\* MasterPattern.__init__: janelas_recentes
janelas_recentes == 10

\* _calcular_peso_temporal: 0.96 ** (posicao / total), by the first three
\* terms of exp(x * ln 0.96); x < 1, so the fourth is below 0.2 / SCALE
calcular_peso_temporal(posicao, total) ==
    SCALE - (40822 * posicao) \div (100 * total)
          + (833 * posicao * posicao) \div (100 * total * total)

\* _buscar_padroes_exatos_offset: the idx_real of the occurrences of the
\* window [offset, offset + janela_size) the call counts, those that pass
\* "idx_real + 1 < len(history)"
ocorrencias_contadas(history, janela_size, offset, min_sup) ==
    LET fim == offset + janela_size
        busca_inicio == fim + 1
        ocorrencias ==
            encontrar_sequencia(Slice(history, busca_inicio, Len(history)),
                                Slice(history, offset, fim))
    IN  IF \/ fim > Len(history)
           \/ busca_inicio >= Len(history)
           \/ Len(ocorrencias) < min_sup
        THEN <<>>
        ELSE SelectSeq([i \in DOMAIN ocorrencias |->
                           ocorrencias[i] + busca_inicio],
                       LAMBDA idx_real : idx_real + 1 < Len(history))

\* _buscar_padroes_exatos_offset: `st` holds the scores dict and the two
\* counters of metadata the call updates
buscar_padroes_exatos_offset(history, janela_size, offset, min_sup, st) ==
    LET fim == offset + janela_size
        busca_inicio == fim + 1
        ocorrencias ==
            encontrar_sequencia(Slice(history, busca_inicio, Len(history)),
                                Slice(history, offset, fim))
        reais == ocorrencias_contadas(history, janela_size, offset, min_sup)
    IN  IF fim > Len(history) THEN st
        ELSE IF busca_inicio >= Len(history) \/ Len(ocorrencias) < min_sup
        THEN [st EXCEPT !.janelas_analisadas = @ + 1]
        ELSE [scores |->
                  FoldSeq(LAMBDA acc, idx_real :
                              DAdd(acc, At(history, idx_real + 1),
                                   calcular_peso_temporal(idx_real,
                                                          Len(history))
                                       \div (offset + 1)),
                          st.scores, reais),
              janelas_analisadas |-> st.janelas_analisadas + 1,
              padroes_encontrados |-> st.padroes_encontrados + Len(reais)]

\* Counter(s).most_common(n)
most_common_n(s, n) ==
    Slice(SortedByScoreDesc(FoldSeq(LAMBDA acc, x : DAdd(acc, x, 1), <<>>, s)),
          0, n)

\* _aplicar_relacoes_multiplicador: scores_finais
aplicar_relacoes_multiplicador(history, scores_padroes) ==
    LET numero_mais_recente == At(history, 0)
        vizinhos == DAddAll(<<>>,
                        SelectSeq(get_vizinhos(numero_mais_recente, 2),
                                  LAMBDA viz : 0 <= viz /\ viz <= 36),
                        2000)
        espelho == IF numero_mais_recente \in DOMAIN ESPELHOS
                   THEN DAdd(vizinhos, ESPELHOS[numero_mais_recente], 3000)
                   ELSE vizinhos
        familia == DAddAll(espelho,
                       SelectSeq(get_familia_terminal(
                                     get_terminal(numero_mais_recente)),
                                 LAMBDA num : num # numero_mais_recente),
                       1500)
        soma == DAddAll(familia,
                    Slice(get_numeros_mesma_soma(numero_mais_recente), 0, 5),
                    1000)
        contexto == FoldSeq(LAMBDA acc, nf :
                                IF nf[1] # numero_mais_recente
                                THEN DAdd(acc, nf[1], 500 * nf[2]) ELSE acc,
                            soma, most_common_n(Slice(history, 0, 10), 5))
    IN  Bind([i \in DOMAIN contexto |->
                 <<contexto[i][1], Min2(contexto[i][2], peso_relacoes)>>],
             LAMBDA bonus_relacoes :
                 FoldSeq(LAMBDA acc, nb :
                             IF ~DHas(acc, nb[1]) /\ nb[2] > 0
                             THEN DSet(acc, nb[1], (SCALE + nb[2]) \div 10)
                             ELSE acc,
                         [i \in DOMAIN scores_padroes |->
                             <<scores_padroes[i][1],
                               MulF(scores_padroes[i][2],
                                    SCALE + DGet(bonus_relacoes,
                                                 scores_padroes[i][1]))>>],
                         bonus_relacoes))

\* _fallback_relacoes: scores
fallback_relacoes(history) ==
    LET numero_mais_recente == At(history, 0)
        vizinhos == DAddAll(<<>>,
                        SelectSeq(get_vizinhos(numero_mais_recente, 2),
                                  LAMBDA viz : 0 <= viz /\ viz <= 36),
                        2500)
        espelho == IF numero_mais_recente \in DOMAIN ESPELHOS
                   THEN DAdd(vizinhos, ESPELHOS[numero_mais_recente], 4000)
                   ELSE vizinhos
        familia == DAddAll(espelho,
                       SelectSeq(get_familia_terminal(
                                     get_terminal(numero_mais_recente)),
                                 LAMBDA num : num # numero_mais_recente),
                       1500)
    IN  FoldSeq(LAMBDA acc, nf :
                    IF nf[1] # numero_mais_recente
                    THEN DAdd(acc, nf[1], 1000 * nf[2]) ELSE acc,
                familia, most_common_n(Slice(history, 0, 15), 10))

\* MasterPattern.analyze under a config that sets janela_min, janela_max and
\* min_support.  (metadata keeps the counters and the mode; its
\* relacoes_detectadas, a count per kind of relation, is left out.)
MasterPattern_analyze(config, history) ==
    IF validate_history(history, 10).exc # "none"
    THEN Raise(validate_history(history, 10).exc)
    ELSE IF ~validate_history(history, 10).ret
    THEN Return(PatternResult(<<>>, <<>>,
                    [error |-> "Historico insuficiente"], "MASTER_MELHORADO"))
    ELSE
    Bind(FoldSeq(LAMBDA st, janela_size :
                     FoldSeq(LAMBDA st2, offset :
                                 buscar_padroes_exatos_offset(
                                     history, janela_size, offset,
                                     config.min_support, st2),
                             st,
                             \* the offsets before the break
                             SelectSeq(PyRange(0, janelas_recentes),
                                       LAMBDA offset :
                                           offset + 2 * janela_size
                                               < Len(history))),
                 [scores |-> <<>>, janelas_analisadas |-> 0,
                  padroes_encontrados |-> 0],
                 PyRange(config.janela_min, config.janela_max + 1)),
         LAMBDA st :
    Bind(normalize_scores(
             IF st.padroes_encontrados > 0
             THEN aplicar_relacoes_multiplicador(history, st.scores)
             ELSE fallback_relacoes(history)),
         LAMBDA scores_normalizados :
        Return(PatternResult(
                   DKeys(SortedByScoreDesc(scores_normalizados)),
                   scores_normalizados,
                   [janelas_analisadas |-> st.janelas_analisadas,
                    padroes_encontrados |-> st.padroes_encontrados,
                    modo |-> IF st.padroes_encontrados > 0
                             THEN "normal" ELSE "fallback"],
                   "MASTER_MELHORADO"))))

\* ------------------------------------------------------------------------
\* patterns/estelar.py, helpers/utils/filters.py
\* ------------------------------------------------------------------------

\* the `memory_long` the route handlers configure
memory_long == 200

max_offsets == 5

\* soma_digitos of helpers/utils/filters.py, which digit_sum calls
soma_digitos(numero) == IF numero = 29 THEN 2 ELSE get_soma_digitos(numero)

\* the wheel neighbours within `radius`, zero left out, as a sorted list
get_neighbors(number, radius) ==
    SortedSeq({n \in SeqToSet(get_vizinhos(number, radius)) : n # 0})

get_mirrors(number) ==
    IF number \in DOMAIN ESPELHOS THEN <<ESPELHOS[number]>> ELSE <<>>

\* find_relations_between_lists under DEFAULT_RELATION_WEIGHTS: one record
\* for each pair (a, b) that some relation holds of, None skipped
find_relations_between_lists(list1, list2) ==
    LET rel_types(a, b) ==
            (IF a = b THEN <<"igual">> ELSE <<>>)
            \o (IF b \in SeqToSet(get_mirrors(a)) THEN <<"espelho">> ELSE <<>>)
            \o (IF b \in SeqToSet(get_neighbors(a, 2))
                THEN <<"vizinho">> ELSE <<>>)
            \o (IF get_terminal(a) = get_terminal(b)
                THEN <<"terminal">> ELSE <<>>)
            \o (IF soma_digitos(a) = soma_digitos(b)
                THEN <<"soma_digitos">> ELSE <<>>)
        relation_weights(r) ==
            CASE r = "igual" -> 5 * SCALE
              [] r = "espelho" -> 4 * SCALE
              [] r = "vizinho" -> 3 * SCALE
              [] r = "terminal" -> 2 * SCALE
              [] r = "soma_digitos" -> SCALE
        pares == [i \in 1..(Len(list1) * Len(list2)) |->
                     <<list1[((i - 1) \div Len(list2)) + 1],
                       list2[((i - 1) % Len(list2)) + 1]>>]
        relacionados ==
            SelectSeq(pares, LAMBDA p : /\ p[1] # None
                                        /\ p[2] # None
                                        /\ rel_types(p[1], p[2]) # <<>>)
    IN  [i \in DOMAIN relacionados |->
            [a |-> relacionados[i][1], b |-> relacionados[i][2],
             relations |-> rel_types(relacionados[i][1], relacionados[i][2]),
             score |-> FoldSeq(LAMBDA acc, r : acc + relation_weights(r), 0,
                               rel_types(relacionados[i][1],
                                         relacionados[i][2]))]]

\* PatternEstelar._analyze_for_index: <<>> where the source returns None, the
\* result in a one-element list otherwise.  `figure_numbers` is what
\* get_figure(digit_sum(center)) gave (helpers/utils/get_figure.py is not
\* part of the sources), [] when that call raised.
analyze_for_index(numbers, idx_current, figure_numbers) ==
    IF idx_current + 1 >= Len(numbers) THEN <<>>
    ELSE
    Bind(SelectSeq(PyRange(idx_current + 1, Len(numbers)),
                   LAMBDA i : At(numbers, i) = At(numbers, idx_current)),
         LAMBDA achados :
    IF achados = <<>> THEN <<>>
    ELSE IF achados[1] < 2 \/ achados[1] + 1 >= Len(numbers) THEN <<>>
    ELSE
    Bind(find_relations_between_lists(
             <<At(numbers, idx_current + 1)>>,
             <<At(numbers, achados[1] - 1), At(numbers, achados[1] - 2)>>),
         LAMBDA relations :
    IF relations = <<>> THEN <<>>
    ELSE
    LET idx_prev == achados[1]
        base_relation_score ==
            CHOOSE m \in {relations[i].score : i \in DOMAIN relations} :
                \A i \in DOMAIN relations : relations[i].score <= m
        center == At(numbers, idx_prev + 1)
        neighbors == get_neighbors(center, 1)
        mirrors == get_mirrors(center)
        \* get_numbers_by_terminal(get_terminal(center))
        same_terminal == get_familia_terminal(get_terminal(center))
        bet == SortedSeq({n \in {center, center - 1, center + 1}
                                \cup SeqToSet(neighbors) \cup SeqToSet(mirrors)
                                \cup SeqToSet(same_terminal)
                                \cup SeqToSet(figure_numbers) :
                            0 <= n /\ n <= 36})
        rel_factor(n) ==
            IF n = center THEN 10000
            ELSE IF n \in {center - 1, center + 1} THEN 9000
            ELSE IF n \in SeqToSet(neighbors) THEN 8500
            ELSE IF n \in SeqToSet(mirrors) THEN 8000
            ELSE IF n \in SeqToSet(same_terminal) THEN 7000
            ELSE IF n \in SeqToSet(figure_numbers) THEN 6000
            ELSE 5000
        scores == [i \in DOMAIN bet |->
                      <<bet[i], MulF(base_relation_score, rel_factor(bet[i]))>>]
        zero == 0 \notin SeqToSet(bet)
    IN  IF bet = <<>> THEN <<>>
        ELSE << PatternResult(
                 IF zero THEN Append(bet, 0) ELSE bet,
                 normalize_scores(
                     IF zero
                     THEN Append(scores, <<0, MulF(base_relation_score, 3000)>>)
                     ELSE scores),
                 [reason |-> "Gatilho Estelar simplificado encontrado",
                  alvo |-> At(numbers, idx_current),
                  current_index |-> idx_current,
                  alvo_previous_index |-> idx_prev,
                  before_prev |-> At(numbers, idx_prev - 1),
                  before_prev_2 |-> At(numbers, idx_prev - 2),
                  after_prev |-> center,
                  current_before |-> At(numbers, idx_current + 1),
                  center |-> center,
                  relations |-> relations,
                  memory_long_used |-> memory_long],
                 "PatternEstelar") >>))

\* PatternEstelar.analyze: the first of the max_offsets + 1 most recent
\* numbers that triggers gives the result.  (On the histories analysed here
\* _analyze_internal raises nothing, so the `except` branch of analyze, which
\* turns an exception into an empty result, is not entered.)
PatternEstelar_analyze(history, figure_numbers) ==
    IF history = <<>> \/ Len(history) < 4
    THEN PatternResult(<<>>, <<>>,
             [reason |-> "Historico invalido ou insuficiente"],
             "PatternEstelar")
    ELSE
    Bind(Slice(history, 0, memory_long), LAMBDA numbers :
    Bind(SelectSeq([i \in 1..(Min2(max_offsets, Len(numbers) - 1) + 1) |->
                       analyze_for_index(numbers, i - 1, figure_numbers)],
                   LAMBDA r : Len(r) > 0),
         LAMBDA results :
    IF results = <<>>
    THEN PatternResult(<<>>, <<>>,
             [reason |-> "Nenhuma relacao entre contextos nos ultimos numeros",
              max_offsets_checked |-> Min2(max_offsets, Len(numbers) - 1) + 1],
             "PatternEstelar")
    ELSE results[1][1]))

\* ------------------------------------------------------------------------
\* patterns/temporal.py
\* ------------------------------------------------------------------------

\* TemporalPattern._convert_ranking_to_candidates, a row of the ranking
\* being [number, count, average_per_day]
convert_ranking_to_candidates(ranking, min_occurrences) ==
    LET valid_numbers ==
            SelectSeq(ranking, LAMBDA item : item.count >= min_occurrences)
        max_count ==
            CHOOSE m \in {valid_numbers[i].count : i \in DOMAIN valid_numbers} :
                \A i \in DOMAIN valid_numbers : valid_numbers[i].count <= m
        score(item) == (item.count * 100 * SCALE) \div max_count
    IN  [i \in DOMAIN valid_numbers |->
            <<valid_numbers[i].number,
              IF valid_numbers[i].average_per_day >= SCALE
              THEN (score(valid_numbers[i]) * 12) \div 10
              ELSE IF valid_numbers[i].average_per_day >= SCALE \div 2
              THEN (score(valid_numbers[i]) * 11) \div 10
              ELSE score(valid_numbers[i])>>]

\* TemporalPattern.analyze: the pair it returns.  temporal_data is <<>> when
\* _compute_temporal_data gave None (the store could not be read), and the
\* one-element list of its ranking otherwise.
TemporalPattern_analyze(temporal_data, min_occurrences) ==
    IF temporal_data = <<>>
    THEN [candidates |-> <<>>,
          metadata |-> [error |-> "Failed to compute temporal data"]]
    ELSE [candidates |->
              convert_ranking_to_candidates(temporal_data[1], min_occurrences),
          metadata |->
              [candidates_found |->
                   Len(convert_ranking_to_candidates(temporal_data[1],
                                                     min_occurrences))]]

\* ------------------------------------------------------------------------
\* routes/sugestao.py
\* ------------------------------------------------------------------------

\* the outcome slot of an object on which analyze has not been called yet
NoCall == [exc |-> "nocall", ret |-> <<>>]

\* the normalisation of the weights at the head of calcular_ensemble: each
\* weight divided by their sum, a ZeroDivisionError when the sum is 0
pesos_normalizados(w) ==
    LET total_peso == w.master + w.estelar + w.chain + w.temporal
    IN  IF total_peso = 0 THEN Raise("ZeroDivisionError")
        ELSE Return([master |-> DivF(w.master, total_peso),
                     estelar |-> DivF(w.estelar, total_peso),
                     chain |-> DivF(w.chain, total_peso),
                     temporal |-> DivF(w.temporal, total_peso)])

\* calcular_ensemble: the weights divided by their sum, the weighted scores
\* added in the order master, estelar, chain, temporal, and the sums divided
\* by the largest of them
calcular_ensemble(resultado_master, resultado_estelar, resultado_chain, resultado_temporal, w) ==
    LET pesos == pesos_normalizados(w).ret
        somar(acc, scores, peso) ==
            FoldSeq(LAMBDA a, kv : DAdd(a, kv[1], MulF(kv[2], peso)),
                    acc, scores)
    IN  Bind(somar(somar(somar(somar(<<>>, resultado_master.scores,
                                     pesos.master),
                               resultado_estelar.scores, pesos.estelar),
                         resultado_chain.scores, pesos.chain),
                   resultado_temporal.candidates, pesos.temporal),
             LAMBDA scores_combinados :
                 IF scores_combinados # <<>> /\ DMax(scores_combinados) > 0
                 THEN [i \in DOMAIN scores_combinados |->
                          <<scores_combinados[i][1],
                            DivF(scores_combinados[i][2],
                                 DMax(scores_combinados))>>]
                 ELSE scores_combinados)

\* calcular_consenso: the sets of the four matchers cut by the principal
\* numbers; every `puxadas` of a name stands for a matcher the function no
\* longer receives.  (`a & b - c` is a & (b - c) in Python.)
calcular_consenso(candidatos, resultado_master, resultado_estelar, resultado_chain, resultado_temporal) ==
    LET K == SeqToSet(candidatos)
        M == SeqToSet(DKeys(resultado_master.scores))
        E == SeqToSet(DKeys(resultado_estelar.scores))
        C == SeqToSet(DKeys(resultado_chain.scores))
        T == SeqToSet(DKeys(resultado_temporal.candidates))
        consenso_total == K \cap M \cap E \cap C \cap T
        mect == K \cap M \cap E \cap C \cap (T \ consenso_total)
        mept == K \cap M \cap E \cap (T \ consenso_total)
        mcpt == K \cap M \cap C \cap (T \ consenso_total)
        ecpt == K \cap E \cap C \cap (T \ consenso_total)
        mecp == K \cap M \cap E \cap (C \ consenso_total)
        met == K \cap M \cap E \cap (((T \ consenso_total) \ mect) \ mept)
        mct == K \cap M \cap C \cap (((T \ consenso_total) \ mect) \ mcpt)
        mpt == K \cap M \cap (((T \ consenso_total) \ mept) \ mcpt)
        ect == K \cap E \cap C \cap (((T \ consenso_total) \ mect) \ ecpt)
        ept == K \cap E \cap (((T \ consenso_total) \ mept) \ ecpt)
        cpt == K \cap C \cap (((T \ consenso_total) \ mcpt) \ ecpt)
        mec == K \cap M \cap E \cap (((C \ consenso_total) \ mect) \ mecp)
        mep == K \cap M \cap (((E \ consenso_total) \ mept) \ mecp)
        mcp == K \cap M \cap (((C \ consenso_total) \ mcpt) \ mecp)
        ecp == K \cap E \cap (((C \ consenso_total) \ ecpt) \ mecp)
        me == K \cap M \cap (E \ UNION {consenso_total, mect, mept, mecp,
                                         met, mec, mep})
        mc == K \cap M \cap (C \ UNION {consenso_total, mect, mcpt, mecp,
                                         mct, mec, mcp})
        mp == K \cap (M \ UNION {consenso_total, mept, mcpt, mecp, mpt, mep,
                                 mcp})
        mt == K \cap M \cap (T \ UNION {consenso_total, mect, mept, mcpt,
                                         met, mct, mpt})
        ec == K \cap E \cap (C \ UNION {consenso_total, mect, ecpt, mecp,
                                         ect, mec, ecp})
        ep == K \cap (E \ UNION {consenso_total, mept, ecpt, mecp, ept, mep,
                                 ecp})
        et == K \cap E \cap (T \ UNION {consenso_total, mect, mept, ecpt,
                                         met, ect, ept})
        cp == K \cap (C \ UNION {consenso_total, mcpt, ecpt, mecp, cpt, mcp,
                                 ecp})
        ct == K \cap C \cap (T \ UNION {consenso_total, mect, mcpt, ecpt,
                                         mct, ect, cpt})
        pt == K \cap (T \ UNION {consenso_total, mept, mcpt, ecpt, mpt, ept,
                                 cpt})
        so_master == K \cap (((M \ E) \ C) \ T)
        so_estelar == K \cap (((E \ M) \ C) \ T)
        so_chain == K \cap (((C \ M) \ E) \ T)
        so_puxadas == (((K \ M) \ E) \ C) \ T
        so_temporal == K \cap (((T \ M) \ E) \ C)
    IN  [consenso_total |-> SortedSeq(consenso_total),
         consenso_quadruplo |->
             << <<"master_estelar_chain_temporal", SortedSeq(mect)>>,
                <<"master_estelar_puxadas_temporal", SortedSeq(mept)>>,
                <<"master_chain_puxadas_temporal", SortedSeq(mcpt)>>,
                <<"estelar_chain_puxadas_temporal", SortedSeq(ecpt)>>,
                <<"master_estelar_chain_puxadas", SortedSeq(mecp)>> >>,
         consenso_triplo |->
             << <<"master_estelar_temporal", SortedSeq(met)>>,
                <<"master_chain_temporal", SortedSeq(mct)>>,
                <<"master_puxadas_temporal", SortedSeq(mpt)>>,
                <<"estelar_chain_temporal", SortedSeq(ect)>>,
                <<"estelar_puxadas_temporal", SortedSeq(ept)>>,
                <<"chain_puxadas_temporal", SortedSeq(cpt)>>,
                <<"master_estelar_chain", SortedSeq(mec)>>,
                <<"master_estelar_puxadas", SortedSeq(mep)>>,
                <<"master_chain_puxadas", SortedSeq(mcp)>>,
                <<"estelar_chain_puxadas", SortedSeq(ecp)>> >>,
         consenso_duplo |->
             << <<"master_estelar", SortedSeq(me)>>,
                <<"master_chain", SortedSeq(mc)>>,
                <<"master_puxadas", SortedSeq(mp)>>,
                <<"master_temporal", SortedSeq(mt)>>,
                <<"estelar_chain", SortedSeq(ec)>>,
                <<"estelar_puxadas", SortedSeq(ep)>>,
                <<"estelar_temporal", SortedSeq(et)>>,
                <<"chain_puxadas", SortedSeq(cp)>>,
                <<"chain_temporal", SortedSeq(ct)>>,
                <<"puxadas_temporal", SortedSeq(pt)>> >>,
         unicos |->
             << <<"master", SortedSeq(so_master)>>,
                <<"estelar", SortedSeq(so_estelar)>>,
                <<"chain", SortedSeq(so_chain)>>,
                <<"puxadas", SortedSeq(so_puxadas)>>,
                <<"temporal", SortedSeq(so_temporal)>> >>]

\* _get_consenso_nivel: the label f"{nivel}_{tipo}" as the record of its two
\* parts, "total_5/5" as nivel "total" and tipo "5/5"
get_consenso_nivel(numero, consenso) ==
    LET tem(d) == \E i \in DOMAIN d : numero \in SeqToSet(d[i][2])
        tipo(d) == d[CHOOSE i \in DOMAIN d :
                         /\ numero \in SeqToSet(d[i][2])
                         /\ \A j \in 1..(i - 1) :
                                numero \notin SeqToSet(d[j][2])][1]
    IN  IF numero \in SeqToSet(consenso.consenso_total)
        THEN [nivel |-> "total", tipo |-> "5/5"]
        ELSE IF tem(consenso.consenso_quadruplo)
        THEN [nivel |-> "quadruplo", tipo |-> tipo(consenso.consenso_quadruplo)]
        ELSE IF tem(consenso.consenso_triplo)
        THEN [nivel |-> "triplo", tipo |-> tipo(consenso.consenso_triplo)]
        ELSE IF tem(consenso.consenso_duplo)
        THEN [nivel |-> "duplo", tipo |-> tipo(consenso.consenso_duplo)]
        ELSE IF tem(consenso.unicos)
        THEN [nivel |-> "unico", tipo |-> tipo(consenso.unicos)]
        ELSE [nivel |-> "ensemble", tipo |-> ""]

ruas == [i \in 1..12 |-> <<3 * i - 2, 3 * i - 1, 3 * i>>]

protecoes_sem_limite(protecoes, max_protecoes) == SortedSeq(protecoes)

\* protecoes_lista of aplicar_protecoes: the sorted set cut at max_protecoes
protecoes_lista(protecoes, max_protecoes) ==
    Slice(SortedSeq(protecoes), 0, max_protecoes)

\* aplicar_protecoes as the handler calls it (mirrors and neighbours
\* included): zero, mirrors, the two nearest neighbours, the third number of
\* a street with two principals, one number of each family of tens with two
\* principals; the sorted set cut at max_protecoes
aplicar_protecoes(candidatos_base, incluir_zero, max_protecoes) ==
    LET base == SeqToSet(candidatos_base)
        zero == IF incluir_zero /\ 0 \notin base THEN {0} ELSE {}
        espelhos == {ESPELHOS[num] : num \in base \cap DOMAIN ESPELHOS} \ base
        vizinhos == UNION {SeqToSet(Slice(get_vizinhos(num, 1), 0, 2)) :
                              num \in base} \ base
        faltantes == {CHOOSE n \in SeqToSet(rua) \ base :
                          \A m \in SeqToSet(rua) \ base : n <= m :
                      rua \in {r \in SeqToSet(ruas) :
                                  Cardinality(SeqToSet(r) \cap base) = 2}}
        familia(terminal) ==
            SelectSeq(<<terminal, 10 + terminal, 20 + terminal, 30 + terminal>>,
                      LAMBDA n : 0 <= n /\ n <= 36)
        dezenas(protecoes, terminal) ==
            LET livres == SelectSeq(familia(terminal),
                              LAMBDA n : n \notin base /\ n \notin protecoes)
            IN  IF Cardinality(SeqToSet(familia(terminal)) \cap base) >= 2
                   /\ livres # <<>>
                THEN protecoes \cup {livres[1]} ELSE protecoes
        protecoes == FoldSeq(dezenas,
                             zero \cup espelhos \cup vizinhos \cup faltantes,
                             PyRange(0, 10))
    IN  [candidatos |-> candidatos_base,
         protecoes |-> protecoes_lista(protecoes, max_protecoes),
         total_protegido |->
             Len(candidatos_base)
             + Len(protecoes_lista(protecoes, max_protecoes))]

\* sugestao_ensemble: the status of the answer, the outcome of each analyze
\* call the handler made, the weights the combiner used, the ranking
\* (candidatos_ordenados), the principal numbers (candidatos_top) with their
\* consensus labels, and the protections.  `numeros` are the values of the
\* stored documents, most recent first; `pedido` holds the query parameters.
sugestao_ensemble(numeros, figure_numbers, temporal_data, pedido) ==
    LET resposta(status, m, e, c, t, pesos, ordenados) ==
            LET candidatos_top == DKeys(Slice(ordenados, 0, pedido.quantidade))
            IN  [status |-> status, master |-> m, estelar |-> e, chain |-> c,
                 temporal |-> t, pesos |-> pesos, ordenados |-> ordenados,
                 principais |-> candidatos_top,
                 consenso |->
                     IF status # 200 THEN <<>>
                     ELSE [i \in DOMAIN candidatos_top |->
                              get_consenso_nivel(candidatos_top[i],
                                  calcular_consenso(candidatos_top, m.ret,
                                                    e.ret, c.ret, t.ret))],
                 protecoes |->
                     IF status # 200 \/ ~pedido.incluir_protecoes THEN <<>>
                     ELSE aplicar_protecoes(candidatos_top,
                              pedido.incluir_zero,
                              pedido.max_protecoes).protecoes,
                 configuracao |-> pedido]
    IN
    \* _get_historico_interno
    IF Len(numeros) < 10
    THEN resposta(400, NoCall, NoCall, NoCall, NoCall, NoCall, <<>>)
    ELSE IF Len(numeros) < 50
    THEN resposta(404, NoCall, NoCall, NoCall, NoCall, NoCall, <<>>)
    ELSE
    Bind(PatternMaster_analyze(PatternMaster_init, numeros).out,
         LAMBDA resultado_master :
    \* an exception leaves the `try` of the handler: HTTP 500
    IF resultado_master.exc # "none"
    THEN resposta(500, resultado_master, NoCall, NoCall, NoCall, NoCall, <<>>)
    ELSE
    Bind(PatternEstelar_analyze(numeros, figure_numbers),
         LAMBDA resultado_estelar :
    Bind(ChainAnalyzer_analyze(ChainAnalyzer_init, numeros).out, LAMBDA resultado_chain :
    IF resultado_chain.exc # "none"
    THEN resposta(500, resultado_master, Return(resultado_estelar),
                  resultado_chain, NoCall, NoCall, <<>>)
    ELSE
    Bind(TemporalPattern_analyze(temporal_data, 1),
         LAMBDA resultado_temporal :
    IF pesos_normalizados(pedido.w).exc # "none"
    THEN resposta(500, resultado_master, Return(resultado_estelar),
                  resultado_chain, Return(resultado_temporal),
                  pesos_normalizados(pedido.w), <<>>)
    ELSE
    resposta(200, resultado_master, Return(resultado_estelar),
             resultado_chain, Return(resultado_temporal),
             pesos_normalizados(pedido.w),
             SortedByScoreDesc(
                 calcular_ensemble(resultado_master.ret, resultado_estelar,
                                   resultado_chain.ret, resultado_temporal,
                                   pedido.w)))))))

\* ------------------------------------------------------------------------
\* patterns/validacao_ancoras.py
\* ------------------------------------------------------------------------

score_terminal == 20000

score_vizinho == 15000

min_confluencia == 15000

boost_confluencia == 15000

\* _identificar_estrutura: <<>> where the source returns None, the structure
\* in a one-element list otherwise
identificar_estrutura(historico) ==
    IF Len(historico) < 10 THEN <<>>
    ELSE
    LET terminais(i, n) ==
            [k \in 1..n |-> get_terminal(At(historico, i + k - 1))]
        repete(i, t) == Count(terminais(i, 3), t) >= 2
        \* the number at j breaks the window at i: it has not the dominant
        \* terminal and is no wheel neighbour of a number of the window
        quebra(i, j) ==
            /\ ~repete(i, get_terminal(At(historico, j)))
            /\ \A k \in i..(i + 2) :
                   At(historico, j)
                       \notin SeqToSet(get_vizinhos(At(historico, k), 1))
        repeticoes ==
            SelectSeq(PyRange(2, Min2(Len(historico) - 3, 15)),
                      LAMBDA i : /\ \E t \in 0..9 : repete(i, t)
                                 /\ \E j \in 0..(i - 1) : quebra(i, j))
        alternancias ==
            SelectSeq(PyRange(0, Len(historico) - 4),
                      LAMBDA i : /\ terminais(i, 4)[1] = terminais(i, 4)[3]
                                 /\ terminais(i, 4)[2] = terminais(i, 4)[4]
                                 /\ terminais(i, 4)[1] # terminais(i, 4)[2])
        \* `if estrutura['quebra']`: neither None nor 0
        crescentes ==
            SelectSeq(PyRange(1, Len(historico) - 3),
                      LAMBDA i :
                          /\ At(historico, i + 1) = At(historico, i + 2) + 1
                          /\ At(historico, i) = At(historico, i + 1) + 1
                          /\ At(historico, i - 1) \notin {0, None})
        estrutura(inicio, desenvolvimento, q, tipo) ==
            << [inicio |-> inicio, desenvolvimento |-> desenvolvimento,
                quebra |-> q, tipo |-> tipo] >>
    IN  IF repeticoes # <<>>
        THEN estrutura(At(historico, repeticoes[1] + 2),
                       Slice(historico, repeticoes[1], repeticoes[1] + 3),
                       At(historico,
                          CHOOSE j \in 0..(repeticoes[1] - 1) :
                              /\ quebra(repeticoes[1], j)
                              /\ \A k \in (j + 1)..(repeticoes[1] - 1) :
                                     ~quebra(repeticoes[1], k)),
                       "repeticao_quebra")
        ELSE IF alternancias # <<>>
        THEN estrutura(At(historico, alternancias[1] + 3),
                       Slice(historico, alternancias[1] + 1,
                             alternancias[1] + 3),
                       At(historico, alternancias[1]), "alternancia")
        ELSE IF crescentes # <<>>
        THEN estrutura(At(historico, crescentes[1] + 2),
                       Reverse(Slice(historico, crescentes[1],
                                     crescentes[1] + 3)),
                       At(historico, crescentes[1] - 1), "crescente")
        ELSE estrutura(At(historico, 6), Slice(historico, 3, 6),
                       At(historico, 0), "heuristica")

\* _confirmar_ancora: the score of each terminal, as a dict
confirmar_ancora(ancora, historico) ==
    IF ancora = None THEN <<>>
    ELSE
    LET \* the two most recent occurrences of the anchor from index 10 on
        ocorrencias ==
            Slice(SelectSeq(PyRange(10, Min2(Len(historico), 200)),
                            LAMBDA i : At(historico, i) = ancora), 0, 2)
        \* the numbers drawn after an occurrence
        puxados(i) ==
            [j \in 1..(Min2(4, Len(historico) - i) - 1) |->
                At(historico, i - j)]
        pontuar(acc, num_puxado) ==
            FoldSeq(LAMBDA a, viz :
                        IF get_terminal(viz) # get_terminal(num_puxado)
                        THEN DAdd(a, get_terminal(viz), score_vizinho)
                        ELSE a,
                    DAdd(acc, get_terminal(num_puxado), score_terminal),
                    get_vizinhos(num_puxado, 1))
    IN  FoldSeq(LAMBDA a, viz :
                    DAdd(a, get_terminal(viz), score_vizinho \div 2),
                DAdd(FoldSeq(LAMBDA acc, i : FoldSeq(pontuar, acc, puxados(i)),
                             <<>>, ocorrencias),
                     get_terminal(ancora), score_terminal \div 2),
                get_vizinhos(ancora, 1))

\* _verificar_confluencia: whether the two confirmations agree, and the
\* terminals on which they do.  (score_confluencia and tipo_confluencia,
\* read by nothing but the strength figure of the validation, are left out.)
verificar_confluencia(confirmacao_inicio, confirmacao_quebra) ==
    LET terminais_confluentes ==
            IF confirmacao_inicio = <<>> \/ confirmacao_quebra = <<>>
            THEN <<>>
            ELSE SortedSeq({t \in SeqToSet(DKeys(confirmacao_inicio))
                                  \cap SeqToSet(DKeys(confirmacao_quebra)) :
                               DGet(confirmacao_inicio, t)
                                   + DGet(confirmacao_quebra, t)
                                   >= min_confluencia})
    IN  [tem_confluencia |-> terminais_confluentes # <<>>,
         terminais_confluentes |-> terminais_confluentes]

\* validar_sinal: the fields of its answer that the callers read to adjust
\* the scores
validar_sinal(candidatos, historico) ==
    Bind(identificar_estrutura(Slice(historico, 0, 30)), LAMBDA estrutura :
    IF estrutura = <<>>
    THEN [confluencia_detectada |-> FALSE, estrutura_identificada |-> FALSE]
    ELSE
    Bind(confirmar_ancora(estrutura[1].inicio, historico),
         LAMBDA confirmacao_inicio :
    Bind(confirmar_ancora(estrutura[1].quebra, historico),
         LAMBDA confirmacao_quebra :
    Bind(verificar_confluencia(confirmacao_inicio, confirmacao_quebra),
         LAMBDA confluencia :
    [confluencia_detectada |-> confluencia.tem_confluencia,
     estrutura_identificada |-> TRUE,
     estrutura |-> estrutura[1],
     confirmacao_inicio |-> confirmacao_inicio,
     confirmacao_quebra |-> confirmacao_quebra,
     terminais_confluentes |-> confluencia.terminais_confluentes,
     numeros_validados |->
         SelectSeq(DKeys(candidatos), LAMBDA num :
             \E t \in SeqToSet(confluencia.terminais_confluentes) :
                 \/ get_terminal(num) = t
                 \/ \E nt \in SeqToSet(get_familia_terminal(t)) :
                        num \in SeqToSet(get_vizinhos(nt, 1))),
     numeros_invalidados |-> <<>>,
     boost_multiplicador |-> IF confluencia.tem_confluencia
                             THEN boost_confluencia ELSE SCALE]))))

\* ------------------------------------------------------------------------
\* routes/sugestao-1.py
\* ------------------------------------------------------------------------

\* calcular_ensemble of sugestao-1.py, with its default weights: the fifth
\* matcher is ComportamentosImediatos
calcular_ensemble_1(resultado_master, resultado_estelar, resultado_chain, resultado_temporal, resultado_comportamentos) ==
    LET w == [master |-> 1500, estelar |-> 1500, chain |-> 1500,
              temporal |-> 3000, comportamentos |-> 2000]
        total_peso == w.master + w.estelar + w.chain + w.temporal
                      + w.comportamentos
        somar(acc, scores, peso) ==
            FoldSeq(LAMBDA a, kv :
                        DAdd(a, kv[1], MulF(kv[2], DivF(peso, total_peso))),
                    acc, scores)
    IN  Bind(somar(somar(somar(somar(somar(<<>>,
                 resultado_master.scores, w.master),
                 resultado_estelar.scores, w.estelar),
                 resultado_chain.scores, w.chain),
                 resultado_temporal.candidates, w.temporal),
                 resultado_comportamentos.scores, w.comportamentos),
             LAMBDA scores_combinados :
                 IF scores_combinados # <<>> /\ DMax(scores_combinados) > 0
                 THEN [i \in DOMAIN scores_combinados |->
                          <<scores_combinados[i][1],
                            DivF(scores_combinados[i][2],
                                 DMax(scores_combinados))>>]
                 ELSE scores_combinados)

\* aplicar_validacao_ancoras: the adjusted scores and the validation
aplicar_validacao_ancoras(scores_ensemble, numeros) ==
    Bind(validar_sinal(scores_ensemble, numeros), LAMBDA validacao :
    LET validados == IF "numeros_validados" \in DOMAIN validacao
                     THEN validacao.numeros_validados ELSE <<>>
        invalidados == IF "numeros_invalidados" \in DOMAIN validacao
                       THEN validacao.numeros_invalidados ELSE <<>>
        com_boost ==
            IF validacao.confluencia_detectada
            THEN FoldSeq(LAMBDA acc, num :
                             IF DHas(acc, num)
                             THEN DMul(acc, num, validacao.boost_multiplicador,
                                       SCALE)
                             ELSE acc,
                         scores_ensemble, validados)
            ELSE scores_ensemble
    IN  [scores_ajustados |->
             FoldSeq(LAMBDA acc, num :
                         IF DHas(acc, num) THEN DMul(acc, num, 1, 2) ELSE acc,
                     com_boost, invalidados),
         validacao |-> validacao])

\* ------------------------------------------------------------------------
\* patterns/estelar_01.py
\* ------------------------------------------------------------------------

\* default_equiv_weights of PatternEstelar.__init__
default_equiv_weights ==
    [EXACT |-> 10000, NEIGHBOR |-> 8000, TERMINAL |-> 6000, MIRROR |-> 5000,
     PROPERTY |-> 4000, BEHAVIORAL |-> 3000]

\* RouletteRelations.get_neighbors(num, 1), as a sorted list (WHEEL_ORDER is
\* the wheel of RODA)
RouletteRelations_get_neighbors(num) ==
    IF num = 0 THEN <<26, 32>>
    ELSE SortedSeq({n \in SeqToSet(get_vizinhos(num, 1)) : n # 0})

RouletteRelations_get_terminal(num) == IF num > 0 THEN num % 10 ELSE -1

\* RouletteRelations.get_terminal_family, as a sorted list
get_terminal_family(num) ==
    IF num = 0 THEN <<0>>
    ELSE SelectSeq(get_familia_terminal(num % 10), LAMBDA n : n > 0)

\* the triples of three nested for loops over the lists as, bs and cs
trincas_de(as, bs, cs) ==
    [i \in 1..(Len(as) * Len(bs) * Len(cs)) |->
        << as[((i - 1) \div (Len(bs) * Len(cs))) + 1],
           bs[(((i - 1) \div Len(cs)) % Len(bs)) + 1],
           cs[((i - 1) % Len(cs)) + 1] >>]

\* normalize_trinca: the list of (trinca_normalizada, tipo, peso)
normalize_trinca(trinca, equivalence_weights, enable_inversions) ==
    LET a == trinca[1]
        b == trinca[2]
        c == trinca[3]
        com_tipo(ts, tipo) ==
            LET outras == SelectSeq(ts, LAMBDA t : t # trinca)
            IN  [i \in DOMAIN outras |->
                    <<outras[i], tipo, equivalence_weights[tipo]>>]
        terminals ==
            [i \in 1..3 |-> RouletteRelations_get_terminal(trinca[i])]
        mirror(n) == IF n \in DOMAIN ESPELHOS THEN ESPELHOS[n] ELSE n
    IN  IF \E i \in 1..3 : trinca[i] \notin 0..36
        THEN << <<trinca, "EXACT", SCALE>> >>
        ELSE << <<trinca, "EXACT", SCALE>> >>
             \o (IF equivalence_weights.NEIGHBOR > 0
                 THEN com_tipo(trincas_de(
                          <<a>> \o RouletteRelations_get_neighbors(a),
                          <<b>> \o RouletteRelations_get_neighbors(b),
                          <<c>> \o RouletteRelations_get_neighbors(c)),
                          "NEIGHBOR")
                 ELSE <<>>)
             \o (IF /\ equivalence_weights.TERMINAL > 0
                    /\ Count(terminals, terminals[1]) >= 2
                 THEN com_tipo(trincas_de(get_terminal_family(a),
                                          get_terminal_family(b),
                                          get_terminal_family(c)),
                               "TERMINAL")
                 ELSE <<>>)
             \o (IF equivalence_weights.MIRROR > 0
                 THEN com_tipo(<< <<mirror(a), mirror(b), mirror(c)>> >>,
                               "MIRROR")
                 ELSE <<>>)
             \o (IF enable_inversions /\ equivalence_weights.BEHAVIORAL > 0
                 THEN com_tipo(<< <<b, a, c>>, <<a, c, b>>, <<c, b, a>> >>,
                               "BEHAVIORAL")
                 ELSE <<>>)

\* calculate_pillar_strength
calculate_pillar_strength(original, candidate) ==
    LET iguais(P(_)) == Cardinality({i \in 1..3 : P(i)}) >= 2
    IN  (IF iguais(LAMBDA i : original[i] = candidate[i]) THEN 1 ELSE 0)
        + (IF iguais(LAMBDA i :
                  RouletteRelations_get_terminal(original[i])
                      = RouletteRelations_get_terminal(candidate[i]))
           THEN 1 ELSE 0)
        + (IF iguais(LAMBDA i :
                  \/ candidate[i] \in SeqToSet(
                         RouletteRelations_get_neighbors(original[i]))
                  \/ candidate[i] = original[i])
           THEN 1 ELSE 0)

\* extract_trincas_with_gaps: the list of (trinca, gap_pattern, start_index);
\* the gap pattern "A-X..-B-X..-C" is given by its two numbers of X
extract_trincas_with_gaps(history, max_gap) ==
    LET de_b(start_idx, b_offset) ==
            LET b_idx == start_idx + b_offset
                c_offsets == PyRange(1, Min2(max_gap + 2, Len(history) - b_idx))
            IN  [k \in DOMAIN c_offsets |->
                    << << At(history, start_idx), At(history, b_idx),
                          At(history, b_idx + c_offsets[k]) >>,
                       <<b_offset - 1, c_offsets[k] - 1>>,
                       start_idx >>]
        de_a(start_idx) ==
            FoldSeq(LAMBDA acc, b_offset : acc \o de_b(start_idx, b_offset),
                    <<>>,
                    PyRange(1, Min2(max_gap + 2,
                                    Len(history) - start_idx - 1)))
    IN  FoldSeq(LAMBDA acc, start_idx : acc \o de_a(start_idx), <<>>,
                PyRange(0, Len(history) - 2))

\* tuple(sorted(norm_trinca))
canonical(t) ==
    LET lo == Min2(t[1], Min2(t[2], t[3]))
        hi == Max2(t[1], Max2(t[2], t[3]))
    IN  <<lo, t[1] + t[2] + t[3] - lo - hi, hi>>

\* process_history: the groups of trincas by canonical key, the cache of the
\* active ones and the two counters of stats it sets
process_history(history, config) ==
    LET ocorrencia(idx, gap_pattern) ==
            [index |-> idx, gap_pattern |-> gap_pattern]
        \* trinca_groups[canonical]: the list, the key created when absent
        grupo(groups, k) == IF DHas(groups, k) THEN groups[DIndex(groups, k)][2]
                            ELSE <<>>
        acrescentar(lista, norm, idx, gap_pattern) ==
            IF \E i \in DOMAIN lista : lista[i].pattern = norm[1]
            THEN LET i == CHOOSE i \in DOMAIN lista :
                              /\ lista[i].pattern = norm[1]
                              /\ \A j \in 1..(i - 1) :
                                     lista[j].pattern # norm[1]
                 IN  [lista EXCEPT
                        ![i].occurrences =
                            Append(@, ocorrencia(idx, gap_pattern)),
                        ![i].last_occurrence_idx = idx]
            ELSE Append(lista,
                        [pattern |-> norm[1],
                         occurrences |-> <<ocorrencia(idx, gap_pattern)>>,
                         last_occurrence_idx |-> idx,
                         confidence_level |-> 0,
                         equivalence_type |-> norm[2]])
        agrupar(groups, t) ==
            FoldSeq(LAMBDA acc, norm :
                        DSet(acc, canonical(norm[1]),
                             acrescentar(grupo(acc, canonical(norm[1])),
                                         norm, t[3], t[2])),
                    groups,
                    normalize_trinca(t[1], config.equivalence_weights,
                                     config.enable_inversions))
        is_active(t) == Len(t.occurrences) >= 2
        \* the confidence the last loop sets on the active trincas
        confiar(lista) ==
            [i \in DOMAIN lista |->
                IF is_active(lista[i])
                THEN [lista[i] EXCEPT !.confidence_level =
                         calculate_pillar_strength(lista[i].pattern,
                                                   lista[i].pattern)]
                ELSE lista[i]]
    IN  Bind(FoldSeq(agrupar, <<>>,
                     extract_trincas_with_gaps(
                         history, config.max_gap_between_elements)),
             LAMBDA groups :
        Bind([i \in DOMAIN groups |-> <<groups[i][1], confiar(groups[i][2])>>],
             LAMBDA trinca_groups :
        Bind(SelectSeq([i \in DOMAIN trinca_groups |->
                           <<trinca_groups[i][1],
                             SelectSeq(trinca_groups[i][2], is_active)>>],
                       LAMBDA kv : kv[2] # <<>>),
             LAMBDA trinca_cache :
        [processed_history |-> history,
         trinca_groups |-> trinca_groups,
         trinca_cache |-> trinca_cache,
         stats |-> [trincas_found |->
                        FoldSeq(LAMBDA n, kv : n + Len(kv[2]), 0,
                                trinca_groups),
                    active_trincas |-> Len(trinca_cache)]])))

\* ------------------------------------------------------------------------
\* utils/constants.py and helpers/utils/get_neighbords.py: the neighbours
\* ------------------------------------------------------------------------

\* VIZINHOS of constants.py, the list of the number n at index n + 1
VIZINHOS ==
    << <<32, 26>>, <<20, 33>>, <<25, 21>>, <<26, 35>>, <<19, 21>>,
       <<10, 24>>, <<27, 34>>, <<29, 28>>, <<23, 30>>, <<22, 31>>,
       <<5, 24>>, <<30, 36>>, <<35, 28>>, <<27, 36>>, <<20, 31>>,
       <<32, 19>>, <<24, 33>>, <<25, 34>>, <<22, 29>>, <<4, 15>>,
       <<1, 14>>, <<2, 4>>, <<18, 9>>, <<30, 8>>, <<5, 16>>,
       <<17, 2>>, <<0, 3>>, <<6, 13>>, <<12, 7>>, <<7, 18>>,
       <<8, 11>>, <<9, 14>>, <<15, 0>>, <<1, 16>>, <<6, 17>>,
       <<3, 12>>, <<11, 13>> >>

\* get_neighbords(num, qty) of get_neighbords.py (roulette_european_numbers
\* is the wheel of RODA)
get_neighbords(num, qty) ==
    IF num > 36 THEN <<>>
    ELSE IF num = 32 /\ qty = 1 THEN <<15, 19>>
    ELSE IF num = 26 /\ qty = 1 THEN <<3, 35>>
    ELSE LET i == (CHOOSE k \in DOMAIN RODA : RODA[k] = num) - 1
         IN  << At(RODA, (i - qty) % Len(RODA)),
                At(RODA, (i + qty) % Len(RODA)) >>

\* ------------------------------------------------------------------------
\* patterns/final.py: TerminalSugestor
\* ------------------------------------------------------------------------

\* NUMBER_TERMINAL_RELATIONS: for the number n, the numbers of its three
\* relations "T.", "V." and "V."
NUMBER_TERMINAL_RELATIONS ==
    << <<1, 20, 33>>, <<2, 21, 25>>, <<3, 26, 35>>, <<4, 19, 21>>,
       <<5, 10, 24>>, <<6, 27, 34>>, <<7, 28, 29>>, <<8, 11, 23>>,
       <<9, 14, 22>>, <<0, 5, 23>>, <<1, 8, 30>>, <<2, 7, 28>>,
       <<3, 27, 36>>, <<4, 9, 31>>, <<5, 19, 32>>, <<6, 24, 33>>,
       <<7, 25, 34>>, <<8, 22, 29>>, <<9, 4, 15>>, <<0, 1, 14>>,
       <<1, 2, 4>>, <<2, 9, 18>>, <<3, 8, 10>>, <<4, 5, 16>>,
       <<5, 2, 17>>, <<6, 0, 3>>, <<7, 6, 13>>, <<8, 7, 12>>,
       <<9, 7, 18>>, <<0, 8, 11>>, <<1, 9, 14>>, <<2, 0, 15>>,
       <<3, 1, 16>>, <<4, 6, 17>>, <<5, 3, 12>>, <<6, 11, 13>> >>

\* TERMINAL_FAMILIES.get(t, [])
TERMINAL_FAMILIES(t) ==
    IF t \in 0..9 THEN SelectSeq(PyRange(1, 37), LAMBDA n : n % 10 = t)
    ELSE <<>>

\* ESPELHOS_FIXOS of final.py
ESPELHOS_FIXOS ==
    (1 :> 10) @@ (10 :> 1) @@ (2 :> 20) @@ (20 :> 2) @@ (3 :> 30)
    @@ (30 :> 3) @@ (6 :> 9) @@ (9 :> 6) @@ (16 :> 19) @@ (19 :> 16)
    @@ (26 :> 29) @@ (29 :> 26) @@ (13 :> 31) @@ (31 :> 13)
    @@ (12 :> 21) @@ (21 :> 12) @@ (32 :> 23) @@ (23 :> 32)

\* calcular_protecoes of final.py
calcular_protecoes(sugestao) ==
    IF sugestao = <<>> THEN <<>>
    ELSE SortedSeq({0} \cup {ESPELHOS_FIXOS[n] :
                                n \in SeqToSet(sugestao)
                                          \cap DOMAIN ESPELHOS_FIXOS})

\* [h for h in hist if h is not None]
safe_hist_de(hist) == SelectSeq(hist, LAMBDA h : h # None)

\* _get_rel_for_terminal
get_rel_for_terminal(n, t) ==
    IF n = 0 \/ n \notin DOMAIN NUMBER_TERMINAL_RELATIONS THEN "X"
    ELSE IF NUMBER_TERMINAL_RELATIONS[n][1] = t THEN "T"
    ELSE IF t \in {NUMBER_TERMINAL_RELATIONS[n][2],
                   NUMBER_TERMINAL_RELATIONS[n][3]} THEN "V"
    ELSE "X"

\* _detect_p1_repetition_break: the thesis, or <<>> for None
detect_p1_repetition_break(hist) ==
    LET safe_hist == safe_hist_de(hist)
        anchor == At(safe_hist, 0)
        run_len(t) ==
            Cardinality({i \in 1..(Min2(Len(safe_hist), 15) - 1) :
                \A j \in 1..i :
                    get_rel_for_terminal(At(safe_hist, j), t) \in {"T", "V"}})
        quebras == SelectSeq(PyRange(0, 10),
                             LAMBDA t : /\ get_rel_for_terminal(anchor, t) = "X"
                                        /\ run_len(t) >= 3)
    IN  IF Len(safe_hist) < 3 + 1 \/ quebras = <<>> THEN <<>>
        ELSE [pattern |-> <<"P1_Quebra_T", quebras[1]>>, anchor |-> anchor,
              terminals |-> <<quebras[1]>>]

\* get_terminal of final.py (None for the number 0)
terminal_de(n) == IF n = None \/ n = 0 THEN None ELSE n % 10

\* _detect_p3_terminal_repetition: the thesis, or <<>> for None
detect_p3_terminal_repetition(hist) ==
    LET safe_hist == safe_hist_de(hist)
        t0 == terminal_de(At(safe_hist, 0))
        t1 == terminal_de(At(safe_hist, 1))
        t2 == terminal_de(At(safe_hist, 2))
    IN  IF Len(safe_hist) < 3 THEN <<>>
        ELSE IF t0 = None \/ t1 = None \/ t2 = None THEN <<>>
        ELSE IF t0 = t1 /\ t0 # t2
             THEN [pattern |-> <<"P3_Retorno_T", t2>>,
                   anchor |-> At(safe_hist, 0), terminals |-> <<t2>>]
        ELSE <<>>

\* _find_pattern_gatilho, pattern_scan_depth 20
find_pattern_gatilho(hist) ==
    LET hist_scan == Slice(hist, 0, Min2(Len(hist), 20))
    IN  IF detect_p1_repetition_break(hist_scan) # <<>>
        THEN detect_p1_repetition_break(hist_scan)
        ELSE detect_p3_terminal_repetition(hist_scan)

\* _confirm_anchor: the score of each terminal 0..9, from the numbers that
\* followed the two oldest occurrences of the anchor within the scan depth
\* (history_scan_depth 150, history_occurrences 2, lookahead_rounds 5)
confirm_anchor(hist, anchor) ==
    LET scan_depth == Min2(Len(hist), 150)
        indices == {i \in 1..(scan_depth - 1) : At(hist, i) = anchor}
        hist_indices == Slice(Reverse(SortedSeq(indices)), 0, 2)
        hits_in_window(idx) ==
            SelectSeq([k \in 1..Min2(5, idx) |-> At(hist, idx - k)],
                      LAMBDA num : num # None /\ num # 0
                                   /\ 1 <= num /\ num <= 36)
        pontos(n, t) ==
            (IF NUMBER_TERMINAL_RELATIONS[n][1] = t THEN SCALE ELSE 0)
            + (IF NUMBER_TERMINAL_RELATIONS[n][2] = t THEN SCALE \div 2 ELSE 0)
            + (IF NUMBER_TERMINAL_RELATIONS[n][3] = t THEN SCALE \div 2 ELSE 0)
        da_janela(idx, t) ==
            FoldSeq(LAMBDA acc, n : acc + pontos(n, t), 0, hits_in_window(idx))
    IN  IF anchor \notin 1..36 \/ Len(hist_indices) < 2
        THEN [t \in 0..9 |-> 0]
        ELSE [t \in 0..9 |->
                 FoldSeq(LAMBDA acc, idx : acc + da_janela(idx, t), 0,
                         hist_indices)]

\* _get_confluence_pairs
get_confluence_pairs(t1, t2) ==
    {n1 \in SeqToSet(TERMINAL_FAMILIES(t1)) :
        \E n_viz \in SeqToSet(get_vizinhos(n1, 1)) :
            1 <= n_viz /\ n_viz <= 36 /\ terminal_de(n_viz) = t2}

\* _filter_confluence
filter_confluence(terminals) ==
    IF Cardinality(terminals) = 0 THEN {}
    ELSE IF Cardinality(terminals) = 1
    THEN SeqToSet(TERMINAL_FAMILIES(SortedSeq(terminals)[1]))
    ELSE LET t1 == SortedSeq(terminals)[1]
             t2 == SortedSeq(terminals)[2]
             confluence == get_confluence_pairs(t1, t2)
         IN  IF confluence # {}
             THEN confluence
                  \cup SeqToSet(Slice(TERMINAL_FAMILIES(t1), 0, 3))
                  \cup SeqToSet(Slice(TERMINAL_FAMILIES(t2), 0, 3))
             ELSE SeqToSet(TERMINAL_FAMILIES(t1))
                  \cup SeqToSet(TERMINAL_FAMILIES(t2))

\* _calculate_entry_and_check_limit, max_entry_numbers 12
calculate_entry_and_check_limit(base) ==
    LET base_final == Slice(SortedSeq(base), 0, 12)
        protecoes == calcular_protecoes(base_final)
    IN  IF Len(base_final) + Len(protecoes) > 18
        THEN <<Slice(base_final, 0, Max2(3, 18 - Len(protecoes))), protecoes>>
        ELSE <<base_final, protecoes>>

\* the answer of sugerir that carries no signal
sem_sinal ==
    [alvos |-> {},
     meta |-> [support |-> 0, modo |-> "none", terminals |-> <<>>,
               alvos |-> {}]]

\* what sugerir answers when the anchor is not in cooldown: the signal of the
\* history, confidence_threshold 2.0
sinal_de(hist) ==
    LET safe_hist == safe_hist_de(hist)
        gatilho == find_pattern_gatilho(safe_hist)
        scores_reforco == confirm_anchor(safe_hist, gatilho.anchor)
        final_terminals ==
            IF gatilho.pattern[1] = "P1_Quebra_T"
            THEN {t \in 0..9 : scores_reforco[t] >= 2 * SCALE}
            ELSE {}
        entry_tuple ==
            calculate_entry_and_check_limit(filter_confluence(final_terminals))
        alvos == SeqToSet(entry_tuple[1]) \cup SeqToSet(entry_tuple[2])
    IN  IF Len(safe_hist) < 12 THEN sem_sinal
        ELSE IF gatilho = <<>> THEN sem_sinal
        ELSE IF final_terminals = {} THEN sem_sinal
        ELSE IF filter_confluence(final_terminals) = {} THEN sem_sinal
        ELSE [alvos |-> alvos,
              meta |-> [support |-> SCALE, modo |-> gatilho.pattern,
                        terminals |-> SortedSeq(final_terminals),
                        alvos |-> alvos]]

\* TerminalSugestor.sugerir: the object after the call and what it returns
sugerir(self, hist) ==
    LET roll_index == self.roll_index + 1
        safe_hist == safe_hist_de(hist)
        anchor_raw == IF safe_hist # <<>> THEN At(safe_hist, 0) ELSE 0
        em_cooldown == DHas(self.cooldowns, anchor_raw)
        resposta == IF Len(safe_hist) < 12 \/ em_cooldown THEN sem_sinal
                    ELSE sinal_de(hist)
    IN  [roll_index |-> roll_index,
         cooldowns |-> IF resposta = sem_sinal THEN self.cooldowns
                       ELSE DSet(self.cooldowns, anchor_raw, roll_index),
         ret |-> resposta]

\* ------------------------------------------------------------------------
\* The matchers as objects: the state and the calls
\* ------------------------------------------------------------------------

\* the prune threshold of the one decay routine of the code
\* (ChainSuggestor._apply_decay: "< 0.05")
epsilon == 500

\* the longest of the short histories
MaxLen == 13

\* the length of the periodic part of a long history
LongLen == 62

\* the number of analyze calls made on one PatternMaster object
MaxCalls == 2

\* the largest window size a MasterPattern config sets
MaxJanela == 3

\* the largest min_support a MasterPattern config sets
MaxSuporte == 2

\* the length of the histories of ten turns of a cycle of three and two more
CicloLen == 32

\* how many of the most recent numbers process_history is given
JanelaTrincas == 6

\* the number of sugerir calls made on one TerminalSugestor object
MaxRolagens == 4

\* the spin sequences the histories repeat, most recent first
Motivos ==
    <<  <<5, 5, 7, 1, 9, 5, 5, 7, 2, 5, 5, 7>>,
        <<5, 5, 7, 1, 9, 2, 3, 4, 6, 8, 5, 5, 7>>,
        <<1, 3, 5, 7, 9, 12>>,
        <<1, 2, 3>>,
        <<17, 8, 30, 11, 24, 0, 13, 22>>,
        <<20, 1, 20, 14, 31, 9, 10, 5, 24, 16>>,
        <<7, 17, 27, 1>>,
        <<22, 31, 19, 31, 22, 9>>,
        <<2, 1, 3>>,
        <<0, 13, 22, 17, 8, 30, 11, 24>>  >>

\* the n most recent numbers of a table that repeats the motif m
Historico(m, n) ==
    [i \in 1..n |-> Motivos[m][((i - 1) % Len(Motivos[m])) + 1]]

\* the histories a call receives: the short ones, those of CicloLen numbers,
\* and the long ones, whose two oldest numbers occur nowhere else in them
Histories ==
    {Historico(m, n) : m \in DOMAIN Motivos, n \in 0..MaxLen}
    \cup {Historico(m, CicloLen) : m \in DOMAIN Motivos}
    \cup {Historico(m, LongLen) \o <<33, 36>> : m \in DOMAIN Motivos}

VARIABLES
    history,         \* the numbers of the table, most recent first
    master,          \* a PatternMaster object: its stats and its last outcomes
    chain,           \* a ChainAnalyzer object: its chains and its last outcome
    comportamentos,  \* the last outcome of ComportamentosImediatos.analyze
    exato,           \* a MasterPattern object: its config and its outcome
    rota,            \* the answer of sugestao_ensemble to a request
    ancoras,         \* the outcome of the anchor validation of an ensemble
    trincas,        \* a PatternEstelar object of estelar_01.py after process_history
    concorrente,    \* a ChainAnalyzer object shared by two overlapping analyze calls
    terminal,       \* a TerminalSugestor object of final.py and its last call
    vizinhanca      \* the neighbours of one number, by each of the four definitions

vars == <<history, master, chain, comportamentos, exato, rota, ancoras, trincas, concorrente, terminal, vizinhanca>>

Init ==
    /\ history \in Histories
    /\ master = [stats |-> PatternMaster_init, calls |-> 0,
                 out |-> NoCall, prev |-> NoCall]
    /\ chain = [chains |-> <<>>, pair_cache |-> <<>>, out |-> NoCall]
    /\ comportamentos = NoCall
    /\ exato = [config |-> [janela_min |-> 2, janela_max |-> 2,
                            min_support |-> 1],
                out |-> NoCall]
    /\ rota = [status |-> 0, master |-> NoCall, estelar |-> NoCall,
                chain |-> NoCall, temporal |-> NoCall, pesos |-> NoCall,
                ordenados |-> <<>>, principais |-> <<>>, consenso |-> <<>>,
                protecoes |-> <<>>, configuracao |-> <<>>]
    /\ ancoras = NoCall
    /\ trincas = NoCall
    /\ concorrente = [obj |-> ChainAnalyzer_init, pc |-> <<"idle", "idle">>, ret |-> <<NoCall, NoCall>>, sobrepostas |-> FALSE]
    /\ terminal = [roll_index |-> 0, cooldowns |-> <<>>, hist |-> <<>>, out |-> NoCall]
    /\ vizinhanca = NoCall

\* master.analyze(history)
MasterAnalyze ==
    /\ master.calls < MaxCalls
    /\ LET r == PatternMaster_analyze(master.stats, history)
       IN  master' = [stats |-> r.stats, calls |-> master.calls + 1,
                      out |-> r.out, prev |-> master.out]
    /\ UNCHANGED <<history, chain, comportamentos, exato, rota, ancoras, trincas, concorrente, terminal, vizinhanca>>

\* chain.analyze(history)
ChainAnalyze ==
    /\ LET r == ChainAnalyzer_analyze(
                    [chains |-> chain.chains, pair_cache |-> chain.pair_cache],
                    history)
       IN  chain' = [chains |-> r.chains, pair_cache |-> r.pair_cache,
                     out |-> r.out]
    /\ UNCHANGED <<history, master, comportamentos, exato, rota, ancoras, trincas, concorrente, terminal, vizinhanca>>

\* comportamentos.analyze(history)
ComportamentosAnalyze ==
    /\ comportamentos' = ComportamentosImediatos_analyze(history)
    /\ UNCHANGED <<history, master, chain, exato, rota, ancoras, trincas, concorrente, terminal, vizinhanca>>

\* the two calls that overlap on the object get_chain_analyzer() returns
Chamadas == {1, 2}

\* a call enters analyze(history): validate_history; sobrepostas records
\* that a call entered while the other was inside analyze
Chamar(t) ==
    /\ concorrente.pc[t] = "idle"
    /\ Len(history) <= MaxLen
    /\ concorrente' =
           [concorrente EXCEPT
               !.pc[t] = IF historico_valido(history) THEN "clear" ELSE "done",
               !.ret[t] = IF historico_valido(history) THEN @
                          ELSE analyze_invalido(history),
               !.sobrepostas =
                   @ \/ \E u \in Chamadas \ {t} :
                            concorrente.pc[u] \notin {"idle", "done"}]
    /\ UNCHANGED <<history, master, chain, comportamentos, exato, rota, ancoras, trincas, terminal, vizinhanca>>

\* self.chains.clear(); self.pair_cache.clear()
Limpar(t) ==
    /\ concorrente.pc[t] = "clear"
    /\ concorrente' =
           [concorrente EXCEPT
               !.pc[t] = "learn",
               !.obj = [chains |-> clear(concorrente.obj.chains),
                        pair_cache |-> clear(concorrente.obj.pair_cache)]]
    /\ UNCHANGED <<history, master, chain, comportamentos, exato, rota, ancoras, trincas, terminal, vizinhanca>>

\* the loops of _learn_from_history, on what the object holds at that time
Aprender(t) ==
    /\ concorrente.pc[t] = "learn"
    /\ concorrente' =
           [concorrente EXCEPT
               !.pc[t] = "query",
               !.obj = learn_history(concorrente.obj, Reverse(history))]
    /\ UNCHANGED <<history, master, chain, comportamentos, exato, rota, ancoras, trincas, terminal, vizinhanca>>

\* _find_candidates and the rest of analyze, on what the object holds at
\* that time
Consultar(t) ==
    /\ concorrente.pc[t] = "query"
    /\ concorrente' =
           [concorrente EXCEPT
               !.pc[t] = "done",
               !.ret[t] = Return(analyze_resultado(concorrente.obj, history))]
    /\ UNCHANGED <<history, master, chain, comportamentos, exato, rota, ancoras, trincas, terminal, vizinhanca>>

NextConcorrente ==
    \E t \in Chamadas : Chamar(t) \/ Limpar(t) \/ Aprender(t) \/ Consultar(t)

\* two calls of analyze on one ChainAnalyzer object, their steps interleaved
SpecConcorrente == Init /\ [][NextConcorrente]_vars

\* the calls of one ChainAnalyzer object alone
SpecChain == Init /\ [][ChainAnalyze]_vars

Next ==
    \/ MasterAnalyze
    \/ ChainAnalyze
    \/ ComportamentosAnalyze

Spec == Init /\ [][Next]_vars

\* MasterPattern(config).analyze(history), for the configs that set one or
\* two window sizes and the support
ExatoAnalyze ==
    /\ exato.out = NoCall
    /\ \E janela_min \in 2..MaxJanela, janela_max \in 2..MaxJanela,
          min_sup \in 1..MaxSuporte :
           /\ janela_min <= janela_max
           /\ LET config == [janela_min |-> janela_min,
                             janela_max |-> janela_max,
                             min_support |-> min_sup]
              IN  exato' = [config |-> config,
                            out |-> MasterPattern_analyze(config, history)]
    /\ UNCHANGED <<history, master, chain, comportamentos, rota, ancoras, trincas, concorrente, terminal, vizinhanca>>

NextExato == ExatoAnalyze

SpecExato == Init /\ [][NextExato]_vars

\* what get_figure can have given: nothing, or the numbers of one figure
Figuras == {<<>>, <<1, 10, 19, 28>>}

\* what _compute_temporal_data can have given: None, or a ranking (its rows
\* of count 0, which no min_occurrences lets through, left out but one)
DadosTemporais ==
    { <<>>,
      << << [number |-> 33, count |-> 4, average_per_day |-> 10000],
            [number |-> 13, count |-> 3, average_per_day |-> 7500],
            [number |-> 7, count |-> 1, average_per_day |-> 2500],
            [number |-> 20, count |-> 0, average_per_day |-> 0] >> >> }

\* the values of `quantidade` the requests carry (18 is the default)
Quantidades == {6, 18}

\* the weights of the query, each in [0, 1]: the defaults, all zero, and
\* weights of sum 2
Pesos ==
    { [master |-> 2000, estelar |-> 2000, chain |-> 2000, temporal |-> 2000],
      [master |-> 0, estelar |-> 0, chain |-> 0, temporal |-> 0],
      [master |-> 10000, estelar |-> 5000, chain |-> 0, temporal |-> 5000] }

\* max_protecoes of the query, in 0..10
MaximosProtecoes == {0, 6}

\* GET sugestao_ensemble: the store holds the numbers of the table, the most
\* recent document with a null value when valor_nulo
SugestaoEnsemble ==
    /\ rota.status = 0
    /\ \E valor_nulo \in BOOLEAN, figure_numbers \in Figuras,
          temporal_data \in DadosTemporais, quantidade \in Quantidades,
          w \in Pesos, max_protecoes \in MaximosProtecoes :
           rota' = sugestao_ensemble(
                       IF valor_nulo /\ history # <<>>
                       THEN <<None>> \o Tail(history) ELSE history,
                       figure_numbers, temporal_data,
                       [quantidade |-> quantidade, w |-> w,
                        incluir_protecoes |-> TRUE, incluir_zero |-> TRUE,
                        max_protecoes |-> max_protecoes])
    /\ UNCHANGED <<history, master, chain, comportamentos, exato, ancoras, trincas, concorrente, terminal, vizinhanca>>

NextRota == SugestaoEnsemble

SpecRota == Init /\ [][NextRota]_vars

\* calcular_ensemble and aplicar_validacao_ancoras of sugestao-1.py, called
\* as its handler calls them on the results of the five matchers
AplicarValidacaoAncoras ==
    /\ ancoras = NoCall
    /\ PatternMaster_analyze(PatternMaster_init, history).out.exc = "none"
    /\ ChainAnalyzer_analyze(ChainAnalyzer_init, history).out.exc = "none"
    /\ ComportamentosImediatos_analyze(history).exc = "none"
    /\ \E figure_numbers \in Figuras, temporal_data \in DadosTemporais :
           ancoras' =
               Bind(PatternMaster_analyze(PatternMaster_init,
                                          history).out.ret,
                    LAMBDA resultado_master :
               Bind(PatternEstelar_analyze(history, figure_numbers),
                    LAMBDA resultado_estelar :
               Bind(ChainAnalyzer_analyze(ChainAnalyzer_init,
                                          history).out.ret,
                    LAMBDA resultado_chain :
               Bind(ComportamentosImediatos_analyze(history).ret,
                    LAMBDA resultado_comportamentos :
               Bind(calcular_ensemble_1(
                        resultado_master, resultado_estelar, resultado_chain,
                        TemporalPattern_analyze(temporal_data, 3),
                        resultado_comportamentos),
                    LAMBDA scores_ensemble :
               Return(aplicar_validacao_ancoras(scores_ensemble,
                                                history)))))))
    /\ UNCHANGED <<history, master, chain, comportamentos, exato, rota, trincas, concorrente, terminal, vizinhanca>>

\* the scores a direct caller of validar_sinal passes
ScoresDiretos == { <<>>, << <<7, 10000>>, <<17, 5000>>, <<3, 2500>> >> }

\* ValidadorMultiplasAncoras.validar_sinal called through
\* aplicar_validacao_ancoras on scores and a history of any length
ValidarSinal ==
    /\ ancoras = NoCall
    /\ \E candidatos \in ScoresDiretos :
           ancoras' = Return(aplicar_validacao_ancoras(candidatos, history))
    /\ UNCHANGED <<history, master, chain, comportamentos, exato, rota, trincas, concorrente, terminal, vizinhanca>>

NextAncoras == AplicarValidacaoAncoras \/ ValidarSinal

SpecAncoras == Init /\ [][NextAncoras]_vars

\* the weights of the equivalences a PatternEstelar of estelar_01.py is
\* configured with: the defaults, and the defaults with the terminal and the
\* inversion ("BEHAVIORAL") equivalences switched off
PesosEquivalencia ==
    {default_equiv_weights,
     [default_equiv_weights EXCEPT !.TERMINAL = 0, !.BEHAVIORAL = 0]}

\* the values of max_gap_between_elements of the configs
GapsMaximos == {0, 1}

\* PatternEstelar(config).process_history on the JanelaTrincas most recent
\* numbers of the table, oldest first
ProcessHistory ==
    /\ trincas = NoCall
    /\ \E equivalence_weights \in PesosEquivalencia,
          max_gap_between_elements \in GapsMaximos :
           LET config == [equivalence_weights |-> equivalence_weights,
                          enable_inversions |-> TRUE,
                          max_gap_between_elements |->
                              max_gap_between_elements]
           IN  trincas' = [exc |-> "none", config |-> config,
                           ret |-> process_history(
                                       Reverse(Slice(history, 0,
                                                     JanelaTrincas)),
                                       config)]
    /\ UNCHANGED <<history, master, chain, comportamentos, exato, rota, ancoras, concorrente, terminal, vizinhanca>>

NextTrincas == ProcessHistory

SpecTrincas == Init /\ [][NextTrincas]_vars

\* the n most recent numbers of a table that repeats the block b
Repetido(b, n) == [i \in 1..n |-> b[((i - 1) % Len(b)) + 1]]

\* the histories sugerir is called with, most recent first: an anchor followed
\* by three numbers of one terminal, three times, for two anchors; a table
\* without such a run; a short table
HistoricosTerminal ==
    {Repetido(<<5, 1, 11, 21>>, 12), Repetido(<<7, 2, 12, 22>>, 12),
     Repetido(<<1, 2, 3>>, 12), Repetido(<<5, 1, 11, 21>>, 8)}

\* sugestor.sugerir(hist) on the one TerminalSugestor object
Sugerir ==
    /\ terminal.roll_index < MaxRolagens
    /\ \E hist \in HistoricosTerminal :
           LET r == sugerir(terminal, hist)
           IN  terminal' = [roll_index |-> r.roll_index,
                            cooldowns |-> r.cooldowns,
                            hist |-> hist,
                            out |-> Return(r.ret)]
    /\ UNCHANGED <<history, master, chain, comportamentos, exato, rota, ancoras, trincas, concorrente, vizinhanca>>

NextTerminal == Sugerir

SpecTerminal == Init /\ [][NextTerminal]_vars

\* the neighbours of one number of the wheel, asked of the table VIZINHOS, of
\* get_vizinhos, of get_neighbords and of RouletteRelations.get_neighbors
ConsultarVizinhos ==
    /\ \E n \in 0..36 :
           vizinhanca' =
               Return([n |-> n,
                       VIZINHOS |-> VIZINHOS[n + 1],
                       get_vizinhos |-> get_vizinhos(n, 1),
                       get_neighbords |-> get_neighbords(n, 1),
                       get_neighbors |-> RouletteRelations_get_neighbors(n)])
    /\ UNCHANGED <<history, master, chain, comportamentos, exato, rota, ancoras, trincas, concorrente, terminal>>

NextVizinhos == ConsultarVizinhos

SpecVizinhos == Init /\ [][NextVizinhos]_vars

\* ------------------------------------------------------------------------
\* Properties of the matchers
\* ------------------------------------------------------------------------

\* the scores of a returned result are normalized: every value in [0, 1] and,
\* when there is one, the greatest exactly 1.0
Normalizado(out) ==
    out.exc = "none" =>
        /\ \A i \in DOMAIN out.ret.scores :
               0 <= out.ret.scores[i][2] /\ out.ret.scores[i][2] <= SCALE
        /\ out.ret.scores # <<>> => DMax(out.ret.scores) = SCALE

\* C1: for every valid history, the score map each ensemble matcher returns
\* has all its values in [0, 1] and, when it is not empty, a maximum of
\* exactly 1.0
C1_ScoresNormalizados ==
    /\ Normalizado(master.out)
    /\ Normalizado(chain.out)
    /\ Normalizado(comportamentos)

\* C2: every entry the chain learner retains in its model after a learning
\* tick has a confidence of at least epsilon
C2_ConfiancaRetida ==
    \A i \in DOMAIN chain.chains : chain.chains[i].confidence >= epsilon

\* C3: two analyze calls in a row on the same object with the same history
\* return the same candidates, scores and metadata
C3_Idempotente ==
    (master.out.exc = "none" /\ master.prev.exc = "none")
        => master.out.ret = master.prev.ret

\* a returned result that is empty and carries a reason in its metadata
VazioComMotivo(out) ==
    /\ out.exc = "none"
    /\ out.ret.candidatos = <<>>
    /\ out.ret.scores = <<>>
    /\ DOMAIN out.ret.metadata \cap {"error", "reason", "motivo"} # {}

\* C4: on a history shorter than its minimum, every matcher returns an empty
\* result with a reason in its metadata, and raises nothing
C4_CurtoSemExcecao ==
    /\ (master.out.exc # "nocall" /\ Len(history) < 5)
           => VazioComMotivo(master.out)
    /\ (chain.out.exc # "nocall" /\ Len(history) < min_support)
           => VazioComMotivo(chain.out)
    /\ (comportamentos.exc # "nocall" /\ Len(history) < janela_analise)
           => VazioComMotivo(comportamentos)

\* C5: the chain matcher accepts a history of max_chain_length + 1 numbers,
\* and reports insufficient history on one that is one number shorter
C5_LimiteDocumentado ==
    chain.out.exc # "nocall" =>
        /\ Len(history) = max_length + 1 => ~VazioComMotivo(chain.out)
        /\ Len(history) = max_length => VazioComMotivo(chain.out)

\* C7: the matcher proposes no candidate that none of its detected patterns
\* and cycles names: every number of its score map comes from one of them
C7_SemCandidatoFabricado ==
    master.out.exc = "none" =>
        LET history_reversed == Reverse(history)
            patterns == detect_property_patterns(history_reversed)
            cycles == detect_cycles(history_reversed)
            numeros ==
                UNION {SeqToSet(get_numbers_for_pattern(patterns[i])) :
                          i \in DOMAIN patterns}
                \cup UNION {SeqToSet(get_numbers_for_cycle(cycles[i])) :
                               i \in DOMAIN cycles}
        IN  SeqToSet(DKeys(master.out.ret.scores)) \subseteq numeros


\* C10: whenever the current window (the w most recent numbers, w a window
\* size of the config) occurs again earlier in the history at least
\* min_support times, every number that came right after one of those
\* earlier occurrences in time (the number at the index just below the
\* occurrence, the history being most recent first) has a nonzero score in
\* the result of the exact matcher
C10_SucessoresPontuados ==
    (exato.out.exc = "none" /\ "error" \notin DOMAIN exato.out.ret.metadata)
    => \A w \in exato.config.janela_min..exato.config.janela_max :
           LET ocorrencias ==
                   {p \in (w + 1)..(Len(history) - w) :
                       Slice(history, p, p + w) = Slice(history, 0, w)}
           IN  Cardinality(ocorrencias) >= exato.config.min_support
               => \A p \in ocorrencias :
                      DGet(exato.out.ret.scores, At(history, p - 1)) > 0

\* ------------------------------------------------------------------------
\* Properties of the combiner
\* ------------------------------------------------------------------------

\* C6: an error raised inside one matcher's analyze is kept to that matcher:
\* whenever the handler had enough history to run the matchers, each of the
\* three analyze calls was made and ended in a returned PatternResult, and
\* the answer carries the ranking (status 200).
C6_FalhaIsolada ==
    rota.status \notin {0, 400, 404}
    => /\ \A m \in {"master", "estelar", "chain"} : rota[m].exc = "none"
       /\ rota.status = 200

\* C8: after the boost and the penalty of the anchor validation the combined
\* scores are scaled by their maximum again, so that every final score lies
\* in [0, 1].
C8_ScoresFinaisNormalizados ==
    ancoras.exc = "none"
    => \A i \in DOMAIN ancoras.ret.scores_ajustados :
           /\ 0 <= ancoras.ret.scores_ajustados[i][2]
           /\ ancoras.ret.scores_ajustados[i][2] <= SCALE

\* C9: the ranking is sorted by descending combined score; of two outcomes
\* with the same score the one in more matchers' candidate sets comes first,
\* and of two in equally many the lower number comes first.
C9_DesempateDeterministico ==
    rota.status = 200
    => \A i \in 1..(Len(rota.ordenados) - 1) :
           LET a == rota.ordenados[i]
               b == rota.ordenados[i + 1]
               conjuntos(n) ==
                   Cardinality({m \in {"master", "estelar", "chain"} :
                                   n \in SeqToSet(rota[m].ret.candidatos)})
                   + (IF DHas(rota.temporal.ret.candidates, n) THEN 1 ELSE 0)
           IN  /\ a[2] >= b[2]
               /\ a[2] = b[2]
                  => \/ conjuntos(a[1]) > conjuntos(b[1])
                     \/ conjuntos(a[1]) = conjuntos(b[1]) /\ a[1] < b[1]

\* ------------------------------------------------------------------------
\* Properties of the validator
\* ------------------------------------------------------------------------

\* the number drawn right after each of the two most recent occurrences of
\* the anchor that _confirmar_ancora replays (those from index 10 on) has
\* the terminal t, and there are two such occurrences
PuxouTerminal(ancora, historico, t) ==
    LET ocorrencias ==
            SelectSeq(PyRange(10, Min2(Len(historico), 200)),
                      LAMBDA i : At(historico, i) = ancora)
    IN  /\ Len(ocorrencias) >= 2
        /\ \A k \in 1..2 : get_terminal(At(historico, ocorrencias[k] - 1)) = t

\* the validation ran on a history in which both anchors pulled terminal 7
AncorasPuxaram7 ==
    /\ ancoras.exc = "none"
    /\ ancoras.ret.validacao.estrutura_identificada
    /\ PuxouTerminal(ancoras.ret.validacao.estrutura.inicio, history, 7)
    /\ PuxouTerminal(ancoras.ret.validacao.estrutura.quebra, history, 7)

\* C11: when the two most recent prior occurrences of the anchors were both
\* followed by a number of terminal 7, the validation detects a confluence
\* and the numbers whose score is multiplied by the boost are exactly the
\* candidates of terminal 7
C11_BoostSoTerminal7 ==
    AncorasPuxaram7
    => /\ ancoras.ret.validacao.confluencia_detectada
       /\ \A i \in DOMAIN ancoras.ret.scores_ajustados :
              LET num == ancoras.ret.scores_ajustados[i][1]
              IN  num \in SeqToSet(ancoras.ret.validacao.numeros_validados)
                      <=> get_terminal(num) = 7

\* ------------------------------------------------------------------------
\* Properties of the equivalence groups of estelar_01.py
\* ------------------------------------------------------------------------

\* the trinca of three consecutive numbers that starts at idx
TrincaEm(idx) ==
    Slice(trincas.ret.processed_history, idx, idx + 3)

\* the groups that hold an occurrence of the trinca of consecutive numbers
\* that starts at idx, under any of its normalizations
GruposDe(idx) ==
    {g \in DOMAIN trincas.ret.trinca_groups :
        \E k \in DOMAIN trincas.ret.trinca_groups[g][2] :
            \E o \in SeqToSet(trincas.ret.trinca_groups[g][2][k].occurrences) :
                o = [index |-> idx, gap_pattern |-> <<0, 0>>]}

\* t2 is t1 with some element replaced by another number of its terminal
\* family and with the order of the elements changed
DiferemPorFamiliaETransposicao(t1, t2) ==
    /\ \A i \in 1..3 : t1[i] > 0 /\ t2[i] > 0
    /\ canonical(t1) # canonical(t2)
    /\ \E i \in 1..3 : t1[i] % 10 # t2[i] % 10
    /\ canonical([i \in 1..3 |-> t1[i] % 10])
           = canonical([i \in 1..3 |-> t2[i] % 10])

\* C12: two trincas that differ only by terminal-family substitution and by
\* transposition have an occurrence in a common group when the TERMINAL and
\* BEHAVIORAL (inversion) weights are nonzero, and in no common group when
\* both weights are zero
C12_EquivalenciaDeTrincas ==
    trincas.exc = "none"
    => \A i, j \in 0..(Len(trincas.ret.processed_history) - 3) :
           i < j /\ DiferemPorFamiliaETransposicao(TrincaEm(i), TrincaEm(j))
           => LET pesos == trincas.config.equivalence_weights
              IN  /\ pesos.TERMINAL > 0 /\ pesos.BEHAVIORAL > 0
                         => GruposDe(i) \cap GruposDe(j) # {}
                  /\ pesos.TERMINAL = 0 /\ pesos.BEHAVIORAL = 0
                         => GruposDe(i) \cap GruposDe(j) = {}

\* the trinca an occurrence was extracted from: the numbers of the processed
\* history at its start index and after its two gaps
TrincaDaOcorrencia(o) ==
    LET b_idx == o.index + o.gap_pattern[1] + 1
    IN  << At(trincas.ret.processed_history, o.index),
           At(trincas.ret.processed_history, b_idx),
           At(trincas.ret.processed_history, b_idx + o.gap_pattern[2] + 1) >>

\* the active trincas of the cache, of every canonical key
TrincasAtivas ==
    UNION {SeqToSet(trincas.ret.trinca_cache[g][2]) :
               g \in DOMAIN trincas.ret.trinca_cache}

\* C24: the confidence level of every active trinca is in 0..3 and is the
\* number of pillars (exact, terminal, neighbour) that hold between the
\* trincas of its first two occurrences
C24_ConfiancaEntreOcorrencias ==
    trincas.exc = "none"
    => \A t \in TrincasAtivas :
           /\ t.confidence_level \in 0..3
           /\ t.confidence_level
                  = calculate_pillar_strength(
                        TrincaDaOcorrencia(t.occurrences[1]),
                        TrincaDaOcorrencia(t.occurrences[2]))

\* C25: every trinca retained as active has occurrences at two different
\* start positions of the history at least
C25_AtivaDeDuasPosicoes ==
    trincas.exc = "none"
    => \A t \in TrincasAtivas :
           Cardinality({t.occurrences[i].index :
                            i \in DOMAIN t.occurrences}) >= 2

\* ------------------------------------------------------------------------
\* Properties of the chain learner
\* ------------------------------------------------------------------------

\* the history is the cycle 1, 2, 3 turned at least ten times and then 1, 2
CicloAprendido ==
    /\ Len(history) >= 32
    /\ \A i \in DOMAIN history : history[i] = <<2, 1, 3>>[((i - 1) % 3) + 1]

\* the learner analysed the cycle and answered
CicloConsultado == chain.out.exc = "none" /\ CicloAprendido

\* C13: after the cycle 1, 2, 3 repeated ten times, the query with the
\* context [1, 2] ranks 3 first, with a score above that of every other
\* candidate and above the minimum confidence, from a chain [1, 2] -> 3 that
\* has the minimum support
C13_CicloPreveTres ==
    CicloConsultado
    => /\ chain.out.ret.candidatos # <<>>
       /\ chain.out.ret.candidatos[1] = 3
       /\ \A i \in DOMAIN chain.out.ret.scores :
              chain.out.ret.scores[i][1] # 3
              => chain.out.ret.scores[i][2] < DGet(chain.out.ret.scores, 3)
       /\ DGet(chain.out.ret.scores, 3) > epsilon
       /\ \E k \in DOMAIN chain.chains :
              /\ chain.chains[k].sequence = <<1, 2>>
              /\ chain.chains[k].outcome = 3
              /\ chain.chains[k].count >= min_support

\* the suffix lookup of the analysed history left fewer candidates than the
\* minimum of five, and its most recent number has learned transitions
PoucosCandidatosDeSufixo ==
    /\ chain.out.exc = "none"
    /\ historico_valido(history)
    /\ Len(candidatos_de_sufixo(chain.chains, Slice(history, 0, 50))) < 5
    /\ DHas(chain.pair_cache, At(history, 0))

\* C26: when the suffix lookup leaves fewer than five candidates, every
\* pair-cache continuation of the most recent number is a candidate of the
\* result, whatever the most recent number is, 0 included
C26_ParesDoMaisRecente ==
    PoucosCandidatosDeSufixo
    => \A i \in DOMAIN most_common_pairs(chain.pair_cache, At(history, 0)) :
           most_common_pairs(chain.pair_cache, At(history, 0))[i][1]
               \in SeqToSet(chain.out.ret.candidatos)

\* the numbers the last step of _find_candidates added to the candidates of
\* the analysed history: those of the result that the chains, the pairs and
\* the missing bonus did not give
CandidatosDeDiversidade ==
    IF chain.out.exc = "none" /\ historico_valido(history)
    THEN LET c3 == candidatos_aprendidos(chain.chains, chain.pair_cache,
                                         Slice(history, 0, 50))
         IN  IF usa_faltantes(c3)
             THEN SeqToSet(chain.out.ret.candidatos) \ SeqToSet(DKeys(c3))
             ELSE {}
    ELSE {}

\* the entries of the metadata that describe the history, the learned model,
\* the inversions, the compensations and the parameters
ChavesDeAprendizado ==
    {"total_numeros", "total_cadeias_aprendidas", "cadeias_por_tamanho",
     "inversoes_detectadas", "compensacoes_detectadas", "top_pares",
     "parametros", "inversoes", "compensacoes"}

\* C27: when the result holds candidates added for diversity, its metadata
\* has an entry, besides those of the learning, that tags them as synthetic
C27_DiversidadeMarcada ==
    CandidatosDeDiversidade # {}
    => DOMAIN chain.out.ret.metadata \ ChavesDeAprendizado # {}

\* C28: every result of PatternMaster.analyze that has scores lists the
\* number 0 among its candidates, however many other candidates there are
C28_ZeroProtegido ==
    (master.out.exc = "none" /\ master.out.ret.scores # <<>>)
    => 0 \in SeqToSet(master.out.ret.candidatos)

\* ------------------------------------------------------------------------
\* Properties of the cooldown of the TerminalSugestor
\* ------------------------------------------------------------------------

\* the number of rolls after which the cooldown of an anchor is to be over
Espera == MaxRolagens - 1

\* the anchor of the last call of sugerir
AncoraDaChamada == At(safe_hist_de(terminal.hist), 0)

\* the last call of sugerir had a history that satisfies the trigger
\* conditions, headed by an anchor whose signal is Espera rolls old or more
ChamadaAposEspera ==
    /\ terminal.out.exc = "none"
    /\ sinal_de(terminal.hist) # sem_sinal
    /\ DHas(terminal.cooldowns, AncoraDaChamada)
    /\ terminal.roll_index - DGet(terminal.cooldowns, AncoraDaChamada)
           >= Espera

\* C29: the anchor of a signal is suppressed for a bounded number of rolls
\* only: a call of sugerir made Espera rolls or more after the signal, with a
\* history headed by the same anchor that satisfies the trigger conditions,
\* gives a signal again
C29_SupressaoLimitada ==
    ChamadaAposEspera => terminal.out.ret # sem_sinal

\* ------------------------------------------------------------------------
\* Properties of the wheel neighbours
\* ------------------------------------------------------------------------

\* the two numbers next to n in the cyclic order of the wheel
AdjacentesNaRoda(n) ==
    LET i == CHOOSE k \in DOMAIN RODA : RODA[k] = n
    IN  {RODA[((i - 2) % Len(RODA)) + 1], RODA[(i % Len(RODA)) + 1]}

\* C30: for the number asked, the table VIZINHOS, get_vizinhos(n, 1),
\* get_neighbords(n) and RouletteRelations.get_neighbors(n, 1) each give
\* exactly the two numbers next to n on the wheel, and n is in turn a
\* neighbour of each of them by the same definition
C30_VizinhosDaRoda ==
    vizinhanca.exc = "none"
    => LET n == vizinhanca.ret.n
       IN  /\ SeqToSet(vizinhanca.ret.VIZINHOS) = AdjacentesNaRoda(n)
           /\ SeqToSet(vizinhanca.ret.get_vizinhos) = AdjacentesNaRoda(n)
           /\ SeqToSet(vizinhanca.ret.get_neighbords) = AdjacentesNaRoda(n)
           /\ SeqToSet(vizinhanca.ret.get_neighbors) = AdjacentesNaRoda(n)
           /\ \A m \in SeqToSet(vizinhanca.ret.VIZINHOS) :
                  n \in SeqToSet(VIZINHOS[m + 1])
           /\ \A m \in SeqToSet(vizinhanca.ret.get_vizinhos) :
                  n \in SeqToSet(get_vizinhos(m, 1))
           /\ \A m \in SeqToSet(vizinhanca.ret.get_neighbords) :
                  n \in SeqToSet(get_neighbords(m, 1))
           /\ \A m \in SeqToSet(vizinhanca.ret.get_neighbors) :
                  n \in SeqToSet(RouletteRelations_get_neighbors(m))

\* ------------------------------------------------------------------------
\* Properties of the consensus labels, the weights and the protections of
\* routes/sugestao.py
\* ------------------------------------------------------------------------

\* the number of matchers whose raw candidate set holds num
PadroesQuePropoem(num) ==
    Cardinality({p \in {"master", "estelar", "chain", "temporal"} :
        num \in SeqToSet(DKeys(IF p = "master" THEN rota.master.ret.scores
                               ELSE IF p = "estelar"
                               THEN rota.estelar.ret.scores
                               ELSE IF p = "chain" THEN rota.chain.ret.scores
                               ELSE rota.temporal.ret.candidates))})

NiveisDe(n) ==
    IF n = 1 THEN {"unico"} ELSE IF n = 2 THEN {"duplo"}
    ELSE IF n = 3 THEN {"triplo"} ELSE IF n = 4 THEN {"quadruplo", "total"}
    ELSE {}

\* C14: in every answer of status 200 the consensus label of each principal
\* number names the tier of the number of matchers whose raw candidate set
\* holds it: one matcher unico, two duplo, three triplo, all four the top
\* tier.
C14_ConsensoContaPadroes ==
    rota.status = 200 =>
        \A i \in DOMAIN rota.principais :
            rota.consenso[i].nivel
                \in NiveisDe(PadroesQuePropoem(rota.principais[i]))

\* C15: whenever the handler reaches the combiner (the four matchers have
\* answered), the weights the combiner uses are defined, proportional to the
\* configured weights of the query and of sum 1 (up to the rounding of the
\* four divisions).
C15_PesosNormalizados ==
    rota.temporal.exc = "none" =>
        /\ rota.pesos.exc = "none"
        /\ LET w == rota.configuracao.w
               total == w.master + w.estelar + w.chain + w.temporal
               usados == rota.pesos.ret
               soma == usados.master + usados.estelar + usados.chain
                       + usados.temporal
           IN  /\ SCALE - 4 < soma /\ soma <= SCALE
               /\ \A p \in {"master", "estelar", "chain", "temporal"} :
                      /\ usados[p] * total <= w[p] * SCALE
                      /\ w[p] * SCALE < (usados[p] + 1) * total

\* C16: in every answer of status 200 the protections have no duplicates,
\* hold no principal number and are at most max_protecoes.
C16_ProtecoesLimitadas ==
    rota.status = 200 =>
        /\ \A i, j \in DOMAIN rota.protecoes :
               rota.protecoes[i] = rota.protecoes[j] => i = j
        /\ SeqToSet(rota.protecoes) \cap SeqToSet(rota.principais) = {}
        /\ Len(rota.protecoes) <= rota.configuracao.max_protecoes

\* an answer whose protections fill the maximum of 6, and one with none
\* allowed
ProtecoesNoLimite ==
    /\ rota.status = 200
    /\ rota.configuracao.max_protecoes = 6
    /\ Len(rota.protecoes) = 6
    /\ Len(rota.principais) = 18

\* ------------------------------------------------------------------------
\* Properties of the verdict of the validator without a structure
\* ------------------------------------------------------------------------

\* C17: when validar_sinal identifies no structure in the history, its
\* verdict says that no confluence was detected and carries a boost
\* multiplier of 1.0.
C17_VereditoNeutro ==
    (ancoras.exc = "none" /\ ~ancoras.ret.validacao.estrutura_identificada) =>
        /\ ~ancoras.ret.validacao.confluencia_detectada
        /\ "boost_multiplicador" \in DOMAIN ancoras.ret.validacao
        /\ ancoras.ret.validacao.boost_multiplicador = SCALE

\* ------------------------------------------------------------------------
\* Properties of a ChainAnalyzer object used by several calls
\* ------------------------------------------------------------------------

\* what a call of analyze(history) returns in every serial execution: the
\* answer of an object that learns the history from scratch
ResultadoSerial == ChainAnalyzer_analyze(ChainAnalyzer_init, history).out

\* C18: the learner needs single-writer serialization.  As long as no call
\* entered analyze while the other was inside it, every finished call
\* returned what the serial executions return; the overlapping executions
\* reach ChamadaDivergente, a finished call whose result no serial execution
\* gives.
C18_SerializadasCorretas ==
    ~concorrente.sobrepostas =>
        \A t \in Chamadas :
            concorrente.pc[t] = "done" => concorrente.ret[t] = ResultadoSerial

ChamadaDivergente ==
    /\ concorrente.sobrepostas
    /\ \E t \in Chamadas :
           /\ concorrente.pc[t] = "done"
           /\ concorrente.ret[t].exc = "none"
           /\ concorrente.ret[t].ret.candidatos
                  # ResultadoSerial.ret.candidatos

\* C19: a learner that has learned a history from scratch, once or again,
\* holds the model of a fresh learner given the same history: the same
\* chains with the same outcomes, counts, last_seen and confidences, and the
\* same pair cache.
C19_ModeloReproduzido ==
    (chain.out.exc = "none" /\ historico_valido(history)) =>
        [chains |-> chain.chains, pair_cache |-> chain.pair_cache]
            = learn_from_history(ChainAnalyzer_init, history)

ModeloAprendido ==
    /\ chain.out.exc = "none"
    /\ chain.pair_cache # <<>>
    /\ \E i \in DOMAIN chain.chains :
           chain.chains[i].count >= 2 /\ Len(chain.chains[i].sequence) = 4

\* ------------------------------------------------------------------------
\* Properties of the search of the exact matcher
\* ------------------------------------------------------------------------

\* C20: for every window size w of the config and every offset o the
\* analysis visits, an occurrence of the window [o, o + w) the exact matcher
\* counts starts at least w numbers after the end of the window: at index
\* o + 2w or beyond.
C20_LacunaDeGuarda ==
    (exato.out.exc = "none" /\ "error" \notin DOMAIN exato.out.ret.metadata)
    => \A w \in exato.config.janela_min..exato.config.janela_max :
           \A o \in 0..(janelas_recentes - 1) :
               o + 2 * w < Len(history)
               => \A idx_real \in SeqToSet(ocorrencias_contadas(
                                      history, w, o,
                                      exato.config.min_support)) :
                      idx_real >= o + w + w

\* ------------------------------------------------------------------------
\* Properties of the validated and invalidated numbers of a verdict
\* ------------------------------------------------------------------------

\* C21: in every verdict that identified a structure, a candidate is among
\* numeros_validados exactly when its terminal is a confluent terminal and
\* among numeros_invalidados exactly when it is not, so that the two lists
\* are disjoint and hold every candidate between them.
C21_ValidadosPorTerminal ==
    (ancoras.exc = "none" /\ ancoras.ret.validacao.estrutura_identificada) =>
        LET v == ancoras.ret.validacao
            confluentes == SeqToSet(v.terminais_confluentes)
        IN  \A num \in SeqToSet(DKeys(ancoras.ret.scores_ajustados)) :
                /\ num \in SeqToSet(v.numeros_validados)
                       <=> get_terminal(num) \in confluentes
                /\ num \in SeqToSet(v.numeros_invalidados)
                       <=> get_terminal(num) \notin confluentes

\* C22: in every verdict that identified a structure, a terminal is
\* confluent exactly when both confirmations score it and the sum of its two
\* scores is strictly above min_confluencia.
C22_ConfluenteAcimaDoLimiar ==
    (ancoras.exc = "none" /\ ancoras.ret.validacao.estrutura_identificada) =>
        LET v == ancoras.ret.validacao
        IN  \A t \in 0..9 :
                t \in SeqToSet(v.terminais_confluentes)
                    <=> /\ DHas(v.confirmacao_inicio, t)
                        /\ DHas(v.confirmacao_quebra, t)
                        /\ DGet(v.confirmacao_inicio, t)
                               + DGet(v.confirmacao_quebra, t)
                               > min_confluencia

\* ------------------------------------------------------------------------
\* Properties of the relation bonus of the exact matcher
\* ------------------------------------------------------------------------

\* the numbers with a base score: those that follow a counted occurrence
NumerosComScoreBase ==
    {At(history, idx_real + 1) :
        idx_real \in UNION {UNION {SeqToSet(ocorrencias_contadas(
                                       history, w, o,
                                       exato.config.min_support)) :
                                   o \in {x \in 0..(janelas_recentes - 1) :
                                             x + 2 * w < Len(history)}} :
                            w \in exato.config.janela_min
                                      ..exato.config.janela_max}}

\* C23: when the exact matcher found patterns, the relation bonus only
\* multiplies base scores (score = base * (1 + bonus)): a number without a
\* base score has no score in the result, normalization keeping a zero at
\* zero.
C23_BonusSoMultiplica ==
    (/\ exato.out.exc = "none"
     /\ "modo" \in DOMAIN exato.out.ret.metadata
     /\ exato.out.ret.metadata.modo = "normal")
    => \A i \in DOMAIN exato.out.ret.scores :
           exato.out.ret.scores[i][2] > 0
           => exato.out.ret.scores[i][1] \in NumerosComScoreBase

====
